---- MODULE Spec2Model ----
(***************************************************************************)
(* apcore: the Executor call pipeline (call / call_async / stream), the    *)
(* MiddlewareManager onion chain and the call-chain safety checks.         *)
(*                                                                         *)
(* One call tree runs at a time as a stack of frames (a module's execute   *)
(* may issue nested calls through ctx.executor); a second thread may add   *)
(* or remove middlewares while the tree is in flight.  Hook results follow *)
(* the declared hook type `dict | None` (or the hook raises).              *)
(***************************************************************************)
EXTENDS Integers, Sequences, FiniteSets, TLC

\* ------------------------------------------------------------------ bounds
MaxCalls == 2          \* calls (top-level and nested) started in one run
MaxMutations == 1      \* use()/remove() operations performed in one run
MaxChainLen == 4       \* longest caller chain handed to _check_safety alone
MaxCfg == 3            \* largest configured depth / repeat budget tried
MaxRules == 2          \* longest rule list handed to ACL.check alone
MaxAclThreads == 2     \* threads using one ACL at the same time
MaxDeps == 2           \* dependencies one module declares
MaxRegThreads == 3     \* threads calling register at the same time
MaxRegOps == 3         \* operations one caller performs on a Registry in a row
MaxContexts == 4       \* contexts derived from one caller's context
MaxPatternLen == 3     \* longest pattern handed to match_pattern alone
MaxIdLen == 4          \* longest module id handed to match_pattern alone
MaxTimedCalls == 2     \* calls that reach _execute_with_timeout in one run
MaxClock == 4          \* readings of time.time() that differ
MaxLoggedDepth == 2    \* calls nested under LoggingMiddleware
MaxLoggedCalls == 3    \* calls made in one call tree
MaxLockThreads == 2    \* threads using the registry with its lock spelled out
ConfiguredMaxCallDepth == 2  \* executor.max_call_depth of the configured executor

\* ------------------------------------------------------- program constants
DefaultMaxCallDepth == 32
DefaultMaxModuleRepeat == 3
DefaultTimeout == 30000

\* --------------------------------------------------------------- universes
Modules == {"X", "Y"}                 \* module ids a caller may target
Plain == {"A", "B"}                   \* user middlewares, arbitrary hooks
MetricsMw == "M"                      \* the MetricsMiddleware instance
MwIds == Plain \cup {MetricsMw}
Modes == {"call", "call_async", "stream"}
HookResults == {"none", "dict", "raise"}
HookChoices == [Plain -> HookResults]   \* what each user hook does when invoked
\* before hooks tried: they leave the inputs as they are, or raise
BeforeChoices == [Plain -> {"none", "raise"}]
\* the chunks a module's stream() yields, in order (it may end or raise early)
ModuleStream == <<[a |-> 1, c |-> 1], [a |-> 2, b |-> 1]>>
\* chains a caller-supplied context may carry into a top-level call
CallerChains == {<<>>, <<"X", "Y">>, <<"X", "X", "X">>}

VARIABLES
    middlewares,   \* MiddlewareManager._middlewares
    registry,      \* ids for which Registry.get returns a module
    frames,        \* the stack of calls in flight (last = innermost)
    metrics_starts,\* ctx.data["_metrics_starts"], shared by the call tree
    config,        \* Executor._default_timeout, _max_call_depth, _max_module_repeat
    calls,         \* number of calls started so far
    mutations,     \* number of use/remove operations so far
    chk,           \* the stand-alone harness of a function applied on its own
    acl,           \* the ACL object: _rules, _default_effect, _yaml_path, _lock
    modules,       \* Registry._modules
    callbacks,     \* Registry._callbacks
    threads,       \* the operations in flight on the ACL or the Registry
    log            \* what the callbacks were given / the states the ACL committed

\* the executor's state, and the state of the registry and ACL objects
objVars == <<acl, modules, callbacks, threads, log>>
execVars == <<middlewares, frames, metrics_starts, config, calls, mutations>>

vars == <<middlewares, registry, frames, metrics_starts, config, calls,
          mutations, chk, acl, modules, callbacks, threads, log>>

\* ----------------------------------------------------------------- helpers
Range(s) == {s[i] : i \in 1..Len(s)}

Reverse(s) == [i \in 1..Len(s) |-> s[Len(s) + 1 - i]]

Front(s) == SubSeq(s, 1, Len(s) - 1)

Count(s, x) == Cardinality({i \in 1..Len(s) : s[i] = x})

NoDup(s) == \A i, j \in 1..Len(s) : i # j => s[i] # s[j]

SeqsUpTo(S, n) == UNION {[1..k -> S] : k \in 0..n}

\* values and exceptions are records so that they compare with each other
NoValue == [src |-> "none", by |-> ""]
NoError == [type |-> "none", by |-> ""]
Value(src, by) == [src |-> src, by |-> by]
Error(type, by) == [type |-> type, by |-> by]

\* ------------------------------------------------- Context (context.py)
\* Context.child: the callee's chain is a copy of the caller's plus the target
Child(call_chain, target_module_id) == Append(call_chain, target_module_id)

\* ------------------------------------- Executor._check_safety (step 2)
\* index (1-based) of the most recent occurrence of module_id in prior_chain
LastIndex(prior_chain, module_id) ==
    CHOOSE i \in 1..Len(prior_chain) :
        /\ prior_chain[i] = module_id
        /\ \A j \in (i + 1)..Len(prior_chain) : prior_chain[j] # module_id

\* mutant: the frequency check counts the occurrences before the target only
CheckSafetyPriorCount(module_id, call_chain, max_call_depth, max_module_repeat) ==
    LET prior_chain == Front(call_chain)
        circular ==
            /\ module_id \in Range(prior_chain)
            /\ Len(prior_chain) - LastIndex(prior_chain, module_id) > 0
    IN  IF Len(call_chain) > max_call_depth
          THEN Error("CallDepthExceededError", module_id)
        ELSE IF circular
          THEN Error("CircularCallError", module_id)
        ELSE IF Count(prior_chain, module_id) > max_module_repeat
          THEN Error("CallFrequencyExceededError", module_id)
        ELSE NoError

\* _check_safety with any earlier occurrence of the target taken for a cycle
CheckSafetyAnyRepeat(module_id, call_chain, max_call_depth, max_module_repeat) ==
    IF Len(call_chain) > max_call_depth
      THEN Error("CallDepthExceededError", module_id)
    ELSE IF module_id \in Range(Front(call_chain))
      THEN Error("CircularCallError", module_id)
    ELSE IF Count(call_chain, module_id) > max_module_repeat
      THEN Error("CallFrequencyExceededError", module_id)
    ELSE NoError

\* _check_safety without the depth check
CheckSafetyNoDepth(module_id, call_chain, max_call_depth, max_module_repeat) ==
    LET prior_chain == Front(call_chain)
    IN  IF /\ module_id \in Range(prior_chain)
           /\ Len(prior_chain) - LastIndex(prior_chain, module_id) > 0
          THEN Error("CircularCallError", module_id)
        ELSE IF Count(call_chain, module_id) > max_module_repeat
          THEN Error("CallFrequencyExceededError", module_id)
        ELSE NoError

CheckSafety(module_id, call_chain, max_call_depth, max_module_repeat) ==
    LET prior_chain == Front(call_chain)
        circular ==
            /\ module_id \in Range(prior_chain)
            /\ Len(prior_chain) - LastIndex(prior_chain, module_id) > 0
    IN  IF Len(call_chain) > max_call_depth
          THEN Error("CallDepthExceededError", module_id)
        ELSE IF circular
          THEN Error("CircularCallError", module_id)
        ELSE IF Count(call_chain, module_id) > max_module_repeat
          THEN Error("CallFrequencyExceededError", module_id)
        ELSE NoError

\* ---------------------------------------------------- middleware hooks
\* Middleware.before / MetricsMiddleware.before
BeforeHook(mw, choice, stack, depth) ==
    IF mw = MetricsMw
      THEN [out |-> "none", stack |-> Append(stack, depth)]
      ELSE [out |-> choice, stack |-> stack]

\* Middleware.after / MetricsMiddleware.after (pop of an empty list raises)
AfterHook(mw, choice, stack) ==
    IF mw = MetricsMw
      THEN IF stack = <<>> THEN [out |-> "raise", stack |-> stack]
                           ELSE [out |-> "none", stack |-> Front(stack)]
      ELSE [out |-> choice, stack |-> stack]

\* Middleware.on_error / MetricsMiddleware.on_error
OnErrorHook(mw, choice, stack) ==
    IF mw = MetricsMw
      THEN IF stack = <<>> THEN [out |-> "raise", stack |-> stack]
                           ELSE [out |-> "none", stack |-> Front(stack)]
      ELSE [out |-> choice, stack |-> stack]

\* the chain-error wrapper raised by execute_before
MiddlewareChainError(original, executed_middlewares) ==
    [type |-> "MiddlewareChainError", by |-> original.by,
     original |-> original, executed_middlewares |-> executed_middlewares]

\* The running state of a chain pass over one frame:
\*   executed  the executed_middlewares list      inputs / output  current values
\*   stack     ctx.data["_metrics_starts"]        error            exception raised
\*   recovery  value returned by a cascade        trace            hooks invoked
ChainState(f, stack) ==
    [executed |-> f.executed, inputs |-> f.inputs, output |-> f.output,
     stack |-> stack, error |-> NoError, recovery |-> NoValue,
     trace |-> f.trace, depth |-> Len(f.chain)]

Ev(hook, mw, out) == <<hook, mw, out>>

\* MiddlewareManager.execute_before: append to executed, then invoke before
RECURSIVE BeforeFrom(_, _, _, _)
RECURSIVE BeforeInlineFrom(_, _, _, _)

\* mutant: execute_before appends a middleware only after its before returned
ExecuteBeforeAppendAfter(snap, choices, st) ==
    LET r == BeforeInlineFrom(snap, choices, 1, st)
    IN  IF r.error = NoError THEN r
        ELSE [r EXCEPT !.error = MiddlewareChainError(r.error, r.executed)]

BeforeFrom(snap, choices, i, st) ==
    IF i > Len(snap) THEN st
    ELSE LET mw == snap[i]
             ex == Append(st.executed, mw)
             h  == BeforeHook(mw, choices[mw], st.stack, st.depth)
             s1 == [st EXCEPT !.executed = ex, !.stack = h.stack,
                              !.trace = Append(@, Ev("before", mw, h.out))]
         IN  IF h.out = "raise"
               THEN [s1 EXCEPT !.error =
                        MiddlewareChainError(Error("before", mw), ex)]
               ELSE BeforeFrom(snap, choices, i + 1,
                        IF h.out = "dict"
                          THEN [s1 EXCEPT !.inputs = Value("before", mw)]
                          ELSE s1)

ExecuteBefore(snap, choices, st) == BeforeFrom(snap, choices, 1, st)

\* the inline before loop of call_async and stream: invoke before, then append
BeforeInlineFrom(snap, choices, i, st) ==
    IF i > Len(snap) THEN st
    ELSE LET mw == snap[i]
             h  == BeforeHook(mw, choices[mw], st.stack, st.depth)
             s1 == [st EXCEPT !.stack = h.stack,
                              !.trace = Append(@, Ev("before", mw, h.out))]
             s2 == [s1 EXCEPT !.executed = Append(@, mw)]
         IN  IF h.out = "raise"
               THEN [s1 EXCEPT !.error = Error("before", mw)]
               ELSE BeforeInlineFrom(snap, choices, i + 1,
                        IF h.out = "dict"
                          THEN [s2 EXCEPT !.inputs = Value("before", mw)]
                          ELSE s2)

BeforeInline(snap, choices, st) == BeforeInlineFrom(snap, choices, 1, st)

\* MiddlewareManager.execute_after and the inline after loops: reverse order,
\* a raising hook ends the pass
RECURSIVE AfterFrom(_, _, _, _)
AfterFrom(snap, choices, i, st) ==
    IF i < 1 THEN st
    ELSE LET mw == snap[i]
             h  == AfterHook(mw, choices[mw], st.stack)
             s1 == [st EXCEPT !.stack = h.stack,
                              !.trace = Append(@, Ev("after", mw, h.out))]
         IN  IF h.out = "raise"
               THEN [s1 EXCEPT !.error = Error("after", mw)]
               ELSE AfterFrom(snap, choices, i - 1,
                        IF h.out = "dict"
                          THEN [s1 EXCEPT !.output = Value("after", mw)]
                          ELSE s1)

\* mutant: the after hooks run in registration order
RECURSIVE AfterForwardFrom(_, _, _, _)
AfterForwardFrom(snap, choices, i, st) ==
    IF i > Len(snap) THEN st
    ELSE LET mw == snap[i]
             h  == AfterHook(mw, choices[mw], st.stack)
             s1 == [st EXCEPT !.stack = h.stack,
                              !.trace = Append(@, Ev("after", mw, h.out))]
         IN  IF h.out = "raise"
               THEN [s1 EXCEPT !.error = Error("after", mw)]
               ELSE AfterForwardFrom(snap, choices, i + 1,
                        IF h.out = "dict"
                          THEN [s1 EXCEPT !.output = Value("after", mw)]
                          ELSE s1)

ExecuteAfterForward(snap, choices, st) == AfterForwardFrom(snap, choices, 1, st)

\* mutant: a raising after hook is remembered but the pass goes on
RECURSIVE AfterAllFrom(_, _, _, _)
AfterAllFrom(snap, choices, i, st) ==
    IF i < 1 THEN st
    ELSE LET mw == snap[i]
             h  == AfterHook(mw, choices[mw], st.stack)
             s1 == [st EXCEPT !.stack = h.stack,
                              !.trace = Append(@, Ev("after", mw, h.out))]
         IN  AfterAllFrom(snap, choices, i - 1,
                 IF h.out = "raise" /\ st.error = NoError
                   THEN [s1 EXCEPT !.error = Error("after", mw)]
                 ELSE IF h.out = "dict"
                   THEN [s1 EXCEPT !.output = Value("after", mw)]
                 ELSE s1)

ExecuteAfterRunsAll(snap, choices, st) == AfterAllFrom(snap, choices, Len(snap), st)

ExecuteAfter(snap, choices, st) == AfterFrom(snap, choices, Len(snap), st)

\* does a handler's return value end the cascade?
IsRecoverySync(out) == out # "none"          \* `result is not None`
IsRecoveryAsync(out) == out = "dict"         \* `isinstance(recovery, dict)`

\* MiddlewareManager.execute_on_error / Executor._execute_on_error_async:
\* reversed(executed); a raising handler is logged and skipped
RECURSIVE OnErrorFrom(_, _, _, _, _)
OnErrorFrom(executed, choices, i, async, st) ==
    IF i < 1 THEN st
    ELSE LET mw == executed[i]
             h  == OnErrorHook(mw, choices[mw], st.stack)
             s1 == [st EXCEPT !.stack = h.stack,
                              !.trace = Append(@, Ev("on_error", mw, h.out))]
         IN  IF h.out = "raise"
               THEN OnErrorFrom(executed, choices, i - 1, async, s1)
             ELSE IF (IF async THEN IsRecoveryAsync(h.out)
                               ELSE IsRecoverySync(h.out))
               THEN [s1 EXCEPT !.recovery = Value("on_error", mw)]
             ELSE OnErrorFrom(executed, choices, i - 1, async, s1)

\* mutant: the cascade asks every handler and keeps the last mapping returned
RECURSIVE OnErrorAllFrom(_, _, _, _, _)
OnErrorAllFrom(executed, choices, i, async, st) ==
    IF i < 1 THEN st
    ELSE LET mw == executed[i]
             h  == OnErrorHook(mw, choices[mw], st.stack)
             s1 == [st EXCEPT !.stack = h.stack,
                              !.trace = Append(@, Ev("on_error", mw, h.out))]
         IN  OnErrorAllFrom(executed, choices, i - 1, async,
                 IF h.out = "dict"
                   THEN [s1 EXCEPT !.recovery = Value("on_error", mw)]
                   ELSE s1)

ExecuteOnErrorLastWins(executed, choices, async, st) ==
    OnErrorAllFrom(executed, choices, Len(executed), async, st)

\* mutant: a handler that raises ends the cascade
RECURSIVE OnErrorUntilRaiseFrom(_, _, _, _, _)
OnErrorUntilRaiseFrom(executed, choices, i, async, st) ==
    IF i < 1 THEN st
    ELSE LET mw == executed[i]
             h  == OnErrorHook(mw, choices[mw], st.stack)
             s1 == [st EXCEPT !.stack = h.stack,
                              !.trace = Append(@, Ev("on_error", mw, h.out))]
         IN  IF h.out = "raise" THEN s1
             ELSE IF h.out = "dict"
               THEN [s1 EXCEPT !.recovery = Value("on_error", mw)]
             ELSE OnErrorUntilRaiseFrom(executed, choices, i - 1, async, s1)

ExecuteOnErrorStopsAtRaise(executed, choices, async, st) ==
    OnErrorUntilRaiseFrom(executed, choices, Len(executed), async, st)

ExecuteOnError(executed, choices, async, st) ==
    OnErrorFrom(executed, choices, Len(executed), async, st)

\* ------------------------------------------------------------ call frames
EmptyDict == [k \in {} |-> 0]

\* `{**accumulated, **chunk}`: keys of the later chunk override
Merge(accumulated, chunk) ==
    [k \in DOMAIN accumulated \cup DOMAIN chunk |->
        IF k \in DOMAIN chunk THEN chunk[k] ELSE accumulated[k]]

NewFrame(mode, module_id, call_chain, stack) ==
    [mode |-> mode, module_id |-> module_id, chain |-> call_chain,
     pc |-> "safety", inputs |-> Value("caller", ""), output |-> NoValue,
     executed |-> <<>>, snapB |-> <<>>, snapA |-> <<>>, streaming |-> FALSE,
     yielded |-> <<>>, accumulated |-> EmptyDict, outcome |-> "none", result |-> NoValue,
     raised |-> NoError, trace |-> <<>>, stack0 |-> Len(stack)]

Top == frames[Len(frames)]
Busy == frames # <<>>
\* some call is between its before chain and its after chain
MidCall == \E i \in 1..Len(frames) : frames[i].pc \in {"exec", "running", "output"}
SetTop(f) == [frames EXCEPT ![Len(frames)] = f]

Noted(f, ev) == [f EXCEPT !.trace = Append(@, ev)]

Absorb(f, st) ==
    [f EXCEPT !.executed = st.executed, !.inputs = st.inputs,
              !.output = st.output, !.trace = st.trace]

\* the call returns `value` (stream: yields it as its last chunk and ends)
Returned(f, st, value, last_chunk) ==
    [Absorb(f, st) EXCEPT !.pc = "done", !.outcome = "return",
        !.result = value,
        !.yielded = IF f.mode = "stream" /\ last_chunk
                      THEN Append(@, value) ELSE @]

\* the call raises `exc` to its caller
Raised(f, st, exc) ==
    [Absorb(f, st) EXCEPT !.pc = "done", !.outcome = "raise", !.raised = exc]

\* mutant: failures of steps 2-5 are handed to the installed middlewares too
RaisedEarlyThroughCascade(f, exc) ==
    [f EXCEPT !.pc = "done", !.outcome = "raise", !.raised = exc,
        !.trace = @ \o [i \in 1..Len(middlewares) |->
                          Ev("on_error", middlewares[Len(middlewares) + 1 - i], "none")]]

\* a failure of steps 2-5: raised before the try block is entered
RaisedEarly(f, exc) == [f EXCEPT !.pc = "done", !.outcome = "raise", !.raised = exc]

\* mutant: a recovery ends the stream without being handed to the consumer
OuterExceptSilent(f, st, exc, echoices) ==
    LET r == IF st.executed # <<>>
               THEN ExecuteOnError(st.executed, echoices, f.mode # "call", st)
               ELSE st
    IN  [frame |-> IF r.recovery # NoValue
                     THEN Returned(f, r, r.recovery, FALSE)
                     ELSE Raised(f, r, exc),
         stack |-> r.stack]

\* `except Exception as exc` around steps 6-9 (call, call_async, stream)
OuterExcept(f, st, exc, echoices) ==
    LET r == IF st.executed # <<>>
               THEN ExecuteOnError(st.executed, echoices, f.mode # "call", st)
               ELSE st
    IN  [frame |-> IF r.recovery # NoValue
                     THEN Returned(f, r, r.recovery, TRUE)
                     ELSE Raised(f, r, exc),
         stack |-> r.stack]

\* mutant: the chain-error wrapper itself is re-raised
ReRaisedWrapper(mce) == mce

\* what `except MiddlewareChainError as mce` re-raises when nothing recovers
ReRaised(mce) == mce.original

\* mutant: executed_middlewares is not emptied before the original is re-raised
ChainErrorExceptTwice(f, st, echoices) ==
    LET mce == st.error
        s0  == [st EXCEPT !.executed = mce.executed_middlewares]
        r   == ExecuteOnError(s0.executed, echoices, FALSE, s0)
    IN  IF r.recovery # NoValue
          THEN [frame |-> Returned(f, r, r.recovery, TRUE), stack |-> r.stack]
          ELSE OuterExcept(f, r, ReRaised(mce), echoices)

\* `except MiddlewareChainError as mce` of the synchronous call (step 6)
ChainErrorExcept(f, st, echoices) ==
    LET mce == st.error
        s0  == [st EXCEPT !.executed = mce.executed_middlewares]
        r   == ExecuteOnError(s0.executed, echoices, FALSE, s0)
    IN  IF r.recovery # NoValue
          THEN [frame |-> Returned(f, r, r.recovery, TRUE), stack |-> r.stack]
          ELSE OuterExcept(f, [r EXCEPT !.executed = <<>>], ReRaised(mce), echoices)

\* ------------------------------------------------------------------ idle parts
\* an executor built without an ACL, over a registry nobody is changing
IdleAcl == [rules |-> <<>>, default_effect |-> "deny", yaml_path |-> "", lock |-> 0]

ObjectsIdle ==
    /\ acl = IdleAcl
    /\ modules = <<>>
    /\ callbacks = [register |-> <<>>, unregister |-> <<>>]
    /\ threads = <<>>
    /\ log = <<>>

\* ------------------------------------------------------------------ Init
Config(default_timeout, max_call_depth, max_module_repeat) ==
    [default_timeout |-> default_timeout, max_call_depth |-> max_call_depth,
     max_module_repeat |-> max_module_repeat]

\* Executor.__init__ without a config (the defaults), and with a config that
\* sets executor.max_call_depth and a negative executor.default_timeout
Configs ==
    {Config(DefaultTimeout, DefaultMaxCallDepth, DefaultMaxModuleRepeat),
     Config(-1, ConfiguredMaxCallDepth, DefaultMaxModuleRepeat)}

\* Executor(middlewares=[...]): any list of distinct middlewares (A and B are
\* interchangeable: B is installed only after A)
InstalledLists ==
    {s \in SeqsUpTo(MwIds, Cardinality(MwIds)) :
        /\ NoDup(s)
        /\ \A i \in 1..Len(s) : s[i] = "B" => \E j \in 1..(i - 1) : s[j] = "A"}

IdleChk == [pc |-> "idle", parent |-> <<>>, module_id |-> "",
            max_call_depth |-> 0, max_module_repeat |-> 0, error |-> NoError]

Init ==
    /\ ObjectsIdle
    /\ middlewares \in InstalledLists
    /\ registry = {"X"}
    /\ frames = <<>>
    /\ metrics_starts = <<>>
    /\ config \in Configs
    /\ calls = 0
    /\ mutations = 0
    /\ chk = IdleChk

\* --------------------------------------------- MiddlewareManager.add/remove
\* Executor.use -> MiddlewareManager.add, while a call is in flight
Use(mw) ==
    /\ MidCall
    /\ mutations < MaxMutations
    /\ mw \notin Range(middlewares)
    /\ middlewares' = Append(middlewares, mw)
    /\ mutations' = mutations + 1
    /\ UNCHANGED <<registry, frames, metrics_starts, config, calls, chk, objVars>>

\* Executor.remove -> MiddlewareManager.remove (by identity, first match)
Remove(mw) ==
    /\ MidCall
    /\ mutations < MaxMutations
    /\ mw \in Range(middlewares)
    /\ middlewares' = SelectSeq(middlewares, LAMBDA m : m # mw)
    /\ mutations' = mutations + 1
    /\ UNCHANGED <<registry, frames, metrics_starts, config, calls, chk, objVars>>

\* ------------------------------------------------------- Executor pipeline
\* step 1 of a top-level call: Context.create / a caller's context, then child
StartCall(mode, module_id, caller_chain) ==
    /\ ~Busy
    /\ calls < MaxCalls
    /\ frames' = <<NewFrame(mode, module_id, Child(caller_chain, module_id), <<>>)>>
    /\ metrics_starts' = <<>>
    /\ calls' = calls + 1
    /\ UNCHANGED <<middlewares, registry, config, mutations, chk, objVars>>

\* how a module calls on: a synchronous execute through call, an async execute
\* or stream through call_async
NestedMode(mode) == IF mode = "call" THEN "call" ELSE "call_async"

\* step 1 of a nested call issued by the running module through ctx.executor
NestedCall(mode, module_id) ==
    /\ Busy
    /\ Top.pc = "running"
    /\ mode = NestedMode(Top.mode)
    /\ calls < MaxCalls
    /\ frames' = Append(frames,
           NewFrame(mode, module_id, Child(Top.chain, module_id), metrics_starts))
    /\ calls' = calls + 1
    /\ UNCHANGED <<middlewares, registry, metrics_starts, config, mutations, chk, objVars>>

\* step 2
SafetyChecks ==
    /\ Busy
    /\ Top.pc = "safety"
    /\ LET e == CheckSafety(Top.module_id, Top.chain, config.max_call_depth,
                            config.max_module_repeat)
       IN  frames' = SetTop(IF e # NoError THEN RaisedEarly(Top, e)
                                           ELSE [Top EXCEPT !.pc = "lookup"])
    /\ UNCHANGED <<middlewares, registry, metrics_starts, config, calls, mutations, chk, objVars>>

\* step 3
Lookup ==
    /\ Busy
    /\ Top.pc = "lookup"
    /\ frames' = SetTop(IF Top.module_id \notin registry
                          THEN RaisedEarly(Top, Error("ModuleNotFoundError", Top.module_id))
                          ELSE [Top EXCEPT !.pc = "acl"])
    /\ UNCHANGED <<middlewares, registry, metrics_starts, config, calls, mutations, chk, objVars>>

\* step 4: the verdict of ACL.check (no ACL configured: allowed)
AclCheck(allowed) ==
    /\ Busy
    /\ Top.pc = "acl"
    /\ frames' = SetTop(IF ~allowed
                          THEN RaisedEarly(Top, Error("ACLDeniedError", Top.module_id))
                          ELSE [Top EXCEPT !.pc = "validate"])
    /\ UNCHANGED <<middlewares, registry, metrics_starts, config, calls, mutations, chk, objVars>>

\* step 5: the verdict of input_schema.model_validate (no schema: valid)
ValidateInputs(valid) ==
    /\ Busy
    /\ Top.pc = "validate"
    /\ frames' = SetTop(IF ~valid
                          THEN RaisedEarly(Top, Error("SchemaValidationError", "input"))
                          ELSE [Top EXCEPT !.pc = "before"])
    /\ UNCHANGED <<middlewares, registry, metrics_starts, config, calls, mutations, chk, objVars>>

\* step 6: the before chain over a snapshot, and its failure handling
BeforeChain(bchoices) ==
    /\ Busy
    /\ Top.pc = "before"
    /\ LET f   == [Top EXCEPT !.snapB = middlewares]
           st0 == ChainState(f, metrics_starts)
           st  == IF f.mode = "call" THEN ExecuteBefore(f.snapB, bchoices, st0)
                                     ELSE BeforeInline(f.snapB, bchoices, st0)
       IN  IF st.error = NoError
             THEN /\ frames' = SetTop([Absorb(f, st) EXCEPT !.pc = "exec"])
                  /\ metrics_starts' = st.stack
             ELSE \E echoices \in HookChoices :
                    LET h == IF f.mode = "call"
                               THEN ChainErrorExcept(f, st, echoices)
                               ELSE OuterExcept(f, st, st.error, echoices)
                    IN  /\ frames' = SetTop(h.frame)
                        /\ metrics_starts' = h.stack
    /\ UNCHANGED <<middlewares, registry, config, calls, mutations, chk, objVars>>

\* mutant: a negative timeout is taken as no timeout
ExecuteEntryUnchecked(has_stream, echoices) ==
    /\ Busy
    /\ Top.pc = "exec"
    /\ frames' = SetTop([Top EXCEPT !.pc = "running",
              !.streaming = (Top.mode = "stream" /\ has_stream),
              !.trace = IF Top.mode = "stream" /\ has_stream
                          THEN Append(@, Ev("stream", Top.module_id, "invoked"))
                          ELSE Append(@, Ev("execute", Top.module_id, "invoked"))])
    /\ UNCHANGED <<middlewares, registry, metrics_starts, config, calls, mutations, chk, objVars>>

\* step 7, entry of _execute_with_timeout / _execute_async; has_stream is
\* whether the module exposes stream()
ExecuteEntry(has_stream, echoices) ==
    /\ Busy
    /\ Top.pc = "exec"
    /\ LET f  == Noted(Top, Ev("timeout_check", Top.module_id, "raise"))
           h  == OuterExcept(f, ChainState(f, metrics_starts),
                             Error("InvalidInputError", Top.module_id), echoices)
       IN  IF config.default_timeout < 0 /\ ~(Top.mode = "stream" /\ has_stream)
             THEN /\ frames' = SetTop(h.frame)
                  /\ metrics_starts' = h.stack
             ELSE /\ frames' = SetTop([Top EXCEPT !.pc = "running",
                        !.streaming = (Top.mode = "stream" /\ has_stream),
                        !.trace = IF Top.mode = "stream" /\ has_stream
                                    THEN Append(@, Ev("stream", Top.module_id, "invoked"))
                                    ELSE Append(@, Ev("execute", Top.module_id, "invoked"))])
                  /\ UNCHANGED metrics_starts
    /\ UNCHANGED <<middlewares, registry, config, calls, mutations, chk, objVars>>

\* module.execute returns
ModuleReturn ==
    /\ Busy
    /\ Top.pc = "running"
    /\ ~Top.streaming
    /\ frames' = SetTop([Top EXCEPT !.pc = "output",
                            !.output = Value("module", Top.module_id)])
    /\ UNCHANGED <<middlewares, registry, metrics_starts, config, calls, mutations, chk, objVars>>

\* mutant: the consumer is handed the accumulator instead of the chunk
StreamChunkAccumulated ==
    /\ Busy
    /\ Top.pc = "running"
    /\ Top.streaming
    /\ Len(Top.yielded) < Len(ModuleStream)
    /\ LET chunk == ModuleStream[Len(Top.yielded) + 1]
       IN  frames' = SetTop([Top EXCEPT !.yielded = Append(@, Merge(Top.accumulated, chunk)),
                                !.accumulated = Merge(@, chunk)])
    /\ UNCHANGED <<middlewares, registry, metrics_starts, config, calls, mutations, chk, objVars>>

\* module.stream yields its next chunk: merged into the accumulator and passed on
StreamChunk ==
    /\ Busy
    /\ Top.pc = "running"
    /\ Top.streaming
    /\ Len(Top.yielded) < Len(ModuleStream)
    /\ LET chunk == ModuleStream[Len(Top.yielded) + 1]
       IN  frames' = SetTop([Top EXCEPT !.yielded = Append(@, chunk),
                                !.accumulated = Merge(@, chunk)])
    /\ UNCHANGED <<middlewares, registry, metrics_starts, config, calls, mutations, chk, objVars>>

\* module.stream is exhausted
StreamEnd ==
    /\ Busy
    /\ Top.pc = "running"
    /\ Top.streaming
    /\ frames' = SetTop([Top EXCEPT !.pc = "output",
                            !.output = Value("accumulated", Top.module_id)])
    /\ UNCHANGED <<middlewares, registry, metrics_starts, config, calls, mutations, chk, objVars>>

\* module.execute (or the iteration of module.stream) raises
ModuleRaise(echoices) ==
    /\ Busy
    /\ Top.pc = "running"
    /\ LET f == Noted(Top, Ev(IF Top.streaming THEN "stream" ELSE "execute",
                              Top.module_id, "raise"))
           h == OuterExcept(f, ChainState(f, metrics_starts),
                            Error("ModuleError", Top.module_id), echoices)
       IN  /\ frames' = SetTop(h.frame)
           /\ metrics_starts' = h.stack
    /\ UNCHANGED <<middlewares, registry, config, calls, mutations, chk, objVars>>

\* the positive timeout elapses before execute has finished
ModuleTimeout(echoices) ==
    /\ Busy
    /\ Top.pc = "running"
    /\ ~Top.streaming
    /\ config.default_timeout > 0
    /\ LET f == Noted(Top, Ev("execute", Top.module_id, "timeout"))
           h == OuterExcept(f, ChainState(f, metrics_starts),
                            Error("ModuleTimeoutError", Top.module_id), echoices)
       IN  /\ frames' = SetTop(h.frame)
           /\ metrics_starts' = h.stack
    /\ UNCHANGED <<middlewares, registry, config, calls, mutations, chk, objVars>>

\* step 8: output_schema.model_validate rejects the output
OutputInvalid(echoices) ==
    /\ Busy
    /\ Top.pc = "output"
    /\ LET f == Noted(Top, Ev("output_validation", Top.module_id, "raise"))
           h == OuterExcept(f, ChainState(f, metrics_starts),
                            Error("SchemaValidationError", "output"), echoices)
       IN  /\ frames' = SetTop(h.frame)
           /\ metrics_starts' = h.stack
    /\ UNCHANGED <<middlewares, registry, config, calls, mutations, chk, objVars>>

\* steps 8-10: the output passes validation, then the after chain over a fresh
\* snapshot, then the return (stream fallback: the output is the single chunk;
\* streaming path: the after chain's result is dropped)
AfterChain(achoices) ==
    /\ Busy
    /\ Top.pc = "output"
    /\ LET f   == [Top EXCEPT !.snapA = middlewares]
           st  == ExecuteAfter(f.snapA, achoices, ChainState(f, metrics_starts))
       IN  IF st.error = NoError
             THEN /\ frames' = SetTop(Returned(f, st, st.output, ~f.streaming))
                  /\ metrics_starts' = st.stack
             ELSE \E echoices \in HookChoices :
                    LET h == OuterExcept(f, st, st.error, echoices)
                    IN  /\ frames' = SetTop(h.frame)
                        /\ metrics_starts' = h.stack
    /\ UNCHANGED <<middlewares, registry, config, calls, mutations, chk, objVars>>

\* a nested call hands its result or exception back to the calling module
ReturnToParent ==
    /\ Len(frames) > 1
    /\ Top.pc = "done"
    /\ frames' = Front(frames)
    /\ UNCHANGED <<middlewares, registry, metrics_starts, config, calls, mutations, chk, objVars>>

\* the top-level call hands its result or exception back to the caller
ReturnToCaller ==
    /\ Len(frames) = 1
    /\ Top.pc = "done"
    /\ frames' = <<>>
    /\ metrics_starts' = <<>>
    /\ UNCHANGED <<middlewares, registry, config, calls, mutations, chk, objVars>>

Next ==
    \/ \E mw \in MwIds : Use(mw)
    \/ \E mw \in MwIds : Remove(mw)
    \/ \E mode \in Modes, m \in Modules, c \in CallerChains : StartCall(mode, m, c)
    \/ \E mode \in Modes, m \in Modules : NestedCall(mode, m)
    \/ SafetyChecks
    \/ Lookup
    \/ \E allowed \in BOOLEAN : AclCheck(allowed)
    \/ \E valid \in BOOLEAN : ValidateInputs(valid)
    \/ \E b \in BeforeChoices : BeforeChain(b)
    \/ \E s \in BOOLEAN, e \in HookChoices : ExecuteEntry(s, e)
    \/ ModuleReturn
    \/ StreamChunk
    \/ StreamEnd
    \/ \E e \in HookChoices : ModuleRaise(e)
    \/ \E e \in HookChoices : ModuleTimeout(e)
    \/ \E e \in HookChoices : OutputInvalid(e)
    \/ \E a \in HookChoices : AfterChain(a)
    \/ ReturnToParent
    \/ ReturnToCaller

Spec == Init /\ [][Next]_vars

\* ------------------------------------- _check_safety applied on its own
\* a caller's chain, a target and a configuration, drawn from bounded sets
SafetyInit ==
    /\ ObjectsIdle
    /\ middlewares = <<>>
    /\ registry = {"X"}
    /\ frames = <<>>
    /\ metrics_starts = <<>>
    /\ config = Config(DefaultTimeout, DefaultMaxCallDepth, DefaultMaxModuleRepeat)
    /\ calls = 0
    /\ mutations = 0
    /\ chk \in [pc : {"fresh"}, parent : SeqsUpTo(Modules, MaxChainLen),
                module_id : Modules, max_call_depth : 1..(MaxChainLen + 1),
                max_module_repeat : 1..MaxCfg, error : {NoError}]

\* ctx = context.child(module_id); self._check_safety(module_id, ctx)
SafetyApply ==
    /\ chk.pc = "fresh"
    /\ chk' = [chk EXCEPT !.pc = "checked",
                  !.error = CheckSafety(chk.module_id, Child(chk.parent, chk.module_id),
                                        chk.max_call_depth, chk.max_module_repeat)]
    /\ UNCHANGED <<middlewares, registry, frames, metrics_starts, config, calls, mutations, objVars>>

SafetyNext == SafetyApply

SpecSafety == SafetyInit /\ [][SafetyNext]_vars

\* ---------------------------- a module that calls on through ctx.executor
\* a top-level call (no context, or a caller's context of one entry)
NestingInit ==
    /\ ObjectsIdle
    /\ middlewares = <<>>
    /\ registry = Modules
    /\ frames = <<>>
    /\ metrics_starts = <<>>
    /\ config = Config(DefaultTimeout, DefaultMaxCallDepth, DefaultMaxModuleRepeat)
    /\ calls = 0
    /\ mutations = 0
    /\ chk \in [pc : {"fresh"}, parent : SeqsUpTo(Modules, 1),
                module_id : Modules, max_call_depth : 1..(MaxChainLen + 1),
                max_module_repeat : 1..MaxCfg, error : {NoError}, nested : {0}]

\* the module passed the safety checks, runs, and calls module_id with its own
\* context: ctx = context.child(module_id), then _check_safety again
NestOn(module_id) ==
    /\ chk.pc = "checked"
    /\ chk.error = NoError
    /\ chk' = [chk EXCEPT !.pc = "fresh", !.module_id = module_id,
                          !.parent = Child(chk.parent, chk.module_id),
                          !.nested = chk.nested + 1]
    /\ UNCHANGED <<middlewares, registry, frames, metrics_starts, config, calls, mutations, objVars>>

NestingNext ==
    \/ SafetyApply
    \/ \E module_id \in Modules : NestOn(module_id)

\* every module calls on whenever it runs
SpecNesting == NestingInit /\ [][NestingNext]_vars /\ WF_vars(NestingNext)

\* =================================================================== ACL
\* ids and patterns are sequences of characters; "@external", "@system" and
\* None are single tokens that no id contains
Star == "*"
External == <<"@external">>
System == <<"@system">>
None == <<"None">>
IdA == <<"a">>
IdAB == <<"a", ".", "b">>

\* str.split("*")
RECURSIVE SplitFrom(_, _, _)
SplitFrom(pattern, i, cur) ==
    IF i > Len(pattern) THEN <<cur>>
    ELSE IF pattern[i] = Star THEN <<cur>> \o SplitFrom(pattern, i + 1, <<>>)
    ELSE SplitFrom(pattern, i + 1, Append(cur, pattern[i]))

Split(pattern) == SplitFrom(pattern, 1, <<>>)

StartsWith(s, prefix) ==
    Len(prefix) <= Len(s) /\ SubSeq(s, 1, Len(prefix)) = prefix

EndsWith(s, suffix) ==
    Len(suffix) <= Len(s) /\ SubSeq(s, Len(s) - Len(suffix) + 1, Len(s)) = suffix

\* str.find(segment, pos): the first index (from 0) at or after pos, or -1
Find(s, segment, pos) ==
    LET hits == {i \in pos..(Len(s) - Len(segment)) :
                    SubSeq(s, i + 1, i + Len(segment)) = segment}
    IN  IF hits = {} THEN -1 ELSE CHOOSE i \in hits : \A j \in hits : i <= j

\* the loop over segments[1:]
RECURSIVE MatchSegments(_, _, _, _)
MatchSegments(segments, k, module_id, pos) ==
    IF k > Len(segments) THEN TRUE
    ELSE IF segments[k] = <<>> THEN MatchSegments(segments, k + 1, module_id, pos)
    ELSE LET idx == Find(module_id, segments[k], pos)
         IN  IF idx = -1 THEN FALSE
             ELSE MatchSegments(segments, k + 1, module_id, idx + Len(segments[k]))

\* mutant: match_pattern without the final endswith test
MatchPatternNoSuffix(pattern, module_id) ==
    IF pattern = <<Star>> THEN TRUE
    ELSE IF Star \notin Range(pattern) THEN pattern = module_id
    ELSE LET segments == Split(pattern)
             starts == pattern[1] = Star
         IN  /\ starts \/ StartsWith(module_id, segments[1])
             /\ MatchSegments(segments, 2, module_id,
                              IF starts THEN 0 ELSE Len(segments[1]))

\* match_pattern(pattern, module_id)
MatchPattern(pattern, module_id) ==
    IF pattern = <<Star>> THEN TRUE
    ELSE IF Star \notin Range(pattern) THEN pattern = module_id
    ELSE LET segments == Split(pattern)
             starts == pattern[1] = Star
         IN  /\ starts \/ StartsWith(module_id, segments[1])
             /\ MatchSegments(segments, 2, module_id,
                              IF starts THEN 0 ELSE Len(segments[1]))
             /\ \/ pattern[Len(pattern)] = Star
                \/ EndsWith(module_id, segments[Len(segments)])

\* Context and Identity as the ACL reads them; absent ones are marked
NoIdentity == [present |-> FALSE, type |-> "", roles |-> {}]
Identity(type, roles) == [present |-> TRUE, type |-> type, roles |-> roles]
NoContext == [present |-> FALSE, identity |-> NoIdentity, depth |-> 0]
AclContext(identity, depth) == [present |-> TRUE, identity |-> identity, depth |-> depth]

\* ACLRule.conditions: None, or a mapping with some of the three keys
NoConditions == [present |-> FALSE, keys |-> {}, identity_types |-> {},
                 roles |-> {}, max_call_depth |-> 0]
Conditions(keys, identity_types, roles, max_call_depth) ==
    [present |-> TRUE, keys |-> keys, identity_types |-> identity_types,
     roles |-> roles, max_call_depth |-> max_call_depth]

ACLRule(callers, targets, effect, conditions) ==
    [callers |-> callers, targets |-> targets, effect |-> effect,
     conditions |-> conditions]

\* ACL._match_pattern
AclMatchPattern(pattern, value, context) ==
    IF pattern = External THEN value = External
    ELSE IF pattern = System
      THEN context.present /\ context.identity.present
           /\ context.identity.type = "system"
    ELSE MatchPattern(pattern, value)

\* ACL._check_conditions
CheckConditions(conditions, context) ==
    IF ~context.present THEN FALSE
    ELSE IF /\ "identity_types" \in conditions.keys
            /\ \/ ~context.identity.present
               \/ context.identity.type \notin conditions.identity_types
      THEN FALSE
    ELSE IF /\ "roles" \in conditions.keys
            /\ \/ ~context.identity.present
               \/ context.identity.roles \cap conditions.roles = {}
      THEN FALSE
    ELSE IF /\ "max_call_depth" \in conditions.keys
            /\ context.depth > conditions.max_call_depth
      THEN FALSE
    ELSE TRUE

\* ACL._matches_rule
MatchesRule(rule, caller, target, context) ==
    /\ \E i \in 1..Len(rule.callers) : AclMatchPattern(rule.callers[i], caller, context)
    /\ \E i \in 1..Len(rule.targets) : AclMatchPattern(rule.targets[i], target, context)
    /\ rule.conditions.present => CheckConditions(rule.conditions, context)

EffectiveCaller(caller_id) == IF caller_id = None THEN External ELSE caller_id

\* the loop of ACL.check with the last matching rule deciding
RECURSIVE EvaluateLastMatch(_, _, _, _, _)
EvaluateLastMatch(rules, default_effect, caller, target, context) ==
    IF rules = <<>> THEN default_effect = "allow"
    ELSE IF MatchesRule(rules[Len(rules)], caller, target, context)
      THEN rules[Len(rules)].effect = "allow"
    ELSE EvaluateLastMatch(Front(rules), default_effect, caller, target, context)

\* the loop of ACL.check over its copy of the rules, then the default
RECURSIVE Evaluate(_, _, _, _, _)
Evaluate(rules, default_effect, caller, target, context) ==
    IF rules = <<>> THEN default_effect = "allow"
    ELSE IF MatchesRule(Head(rules), caller, target, context)
      THEN Head(rules).effect = "allow"
    ELSE Evaluate(Tail(rules), default_effect, caller, target, context)

\* the rules tried
RuleAllowAll == ACLRule(<<<<Star>>>>, <<<<Star>>>>, "allow", NoConditions)
RuleDenyAll == ACLRule(<<<<Star>>>>, <<<<Star>>>>, "deny", NoConditions)
RuleDenyExternal == ACLRule(<<External>>, <<<<"a", ".", Star>>>>, "deny", NoConditions)
RuleAllowFromA == ACLRule(<<IdA, System>>, <<IdAB>>, "allow", NoConditions)
RuleDenyAdmins ==
    ACLRule(<<<<Star>>>>, <<<<Star, "b">>>>, "deny",
            Conditions({"roles"}, {}, {"admin"}, 0))
RuleAllowShallowUsers ==
    ACLRule(<<<<Star>>>>, <<<<Star>>>>, "allow",
            Conditions({"identity_types", "max_call_depth"}, {"user"}, {}, 1))
Rules == {RuleAllowAll, RuleDenyAll, RuleDenyExternal, RuleAllowFromA,
          RuleDenyAdmins, RuleAllowShallowUsers}

Callers == {None, IdA, IdAB}
Targets == {IdA, IdAB}
Contexts == {NoContext, AclContext(NoIdentity, 1),
             AclContext(Identity("user", {"admin"}), 2),
             AclContext(Identity("user", {}), 1),
             AclContext(Identity("system", {}), 1)}

\* ------------------------------------------ ACL.check applied on its own
AclCheckInit ==
    /\ middlewares = <<>>
    /\ registry = {}
    /\ frames = <<>>
    /\ metrics_starts = <<>>
    /\ config = Config(DefaultTimeout, DefaultMaxCallDepth, DefaultMaxModuleRepeat)
    /\ calls = 0
    /\ mutations = 0
    /\ acl \in [rules : SeqsUpTo(Rules, MaxRules), default_effect : {"allow", "deny"},
                yaml_path : {""}, lock : {0}]
    /\ modules = <<>>
    /\ callbacks = [register |-> <<>>, unregister |-> <<>>]
    /\ threads = <<>>
    /\ log = <<>>
    /\ chk \in [pc : {"fresh"}, caller_id : Callers, target_id : Targets,
                context : Contexts, result : {FALSE}]

\* acl.check(caller_id, target_id, context), nothing else running
AclCheckApply ==
    /\ chk.pc = "fresh"
    /\ chk' = [chk EXCEPT !.pc = "checked",
                  !.result = Evaluate(acl.rules, acl.default_effect,
                                      EffectiveCaller(chk.caller_id),
                                      chk.target_id, chk.context)]
    /\ UNCHANGED <<registry, execVars, objVars>>

AclCheckNext == AclCheckApply

SpecAclCheck == AclCheckInit /\ [][AclCheckNext]_vars

\* ------------------------------------- the ACL used by several threads
AclThreads == 1..MaxAclThreads

\* `with self._lock` entered whoever holds the lock
AcquirableAlways(lock) == TRUE

\* `with self._lock` is entered with the lock free
Acquirable(lock) == lock = 0

\* what ACL.load(yaml_path) may read from the file
YamlFiles == {[rules |-> <<RuleAllowFromA, RuleDenyAll>>, default_effect |-> "allow"]}

AclThread(pc, op) ==
    [pc |-> pc, op |-> op, caller_id |-> None, target_id |-> IdA,
     context |-> NoContext, rules |-> <<>>, default_effect |-> "",
     reloaded |-> [rules |-> <<>>, default_effect |-> ""], result |-> "none"]

AclInit ==
    /\ middlewares = <<>>
    /\ registry = {}
    /\ frames = <<>>
    /\ metrics_starts = <<>>
    /\ config = Config(DefaultTimeout, DefaultMaxCallDepth, DefaultMaxModuleRepeat)
    /\ calls = 0
    /\ mutations = 0
    /\ chk = IdleChk
    /\ acl \in {[rules |-> <<RuleDenyExternal>>, default_effect |-> "deny",
                 yaml_path |-> "acl.yaml", lock |-> 0],
                [rules |-> <<RuleAllowAll>>, default_effect |-> "deny",
                 yaml_path |-> "", lock |-> 0]}
    /\ modules = <<>>
    /\ callbacks = [register |-> <<>>, unregister |-> <<>>]
    /\ threads = [t \in AclThreads |-> AclThread("idle", "")]
    /\ log = {<<acl.rules, acl.default_effect>>}

AclIdle == <<registry, execVars, chk, modules, callbacks>>

\* check: enters `with self._lock`
CheckEnter(t, caller_id, target_id, context) ==
    /\ threads[t].pc = "idle"
    /\ Acquirable(acl.lock)
    /\ acl' = [acl EXCEPT !.lock = t]
    /\ threads' = [threads EXCEPT ![t] =
           [AclThread("check_rules", "check") EXCEPT !.caller_id = caller_id,
                !.target_id = target_id, !.context = context]]
    /\ UNCHANGED <<AclIdle, log>>

\* rules = list(self._rules)
CheckCopyRules(t) ==
    /\ threads[t].pc = "check_rules"
    /\ threads' = [threads EXCEPT ![t].rules = acl.rules, ![t].pc = "check_default"]
    /\ UNCHANGED <<AclIdle, acl, log>>

\* default_effect = self._default_effect, and the lock is released
CheckReadDefault(t) ==
    /\ threads[t].pc = "check_default"
    /\ threads' = [threads EXCEPT ![t].default_effect = acl.default_effect,
                                  ![t].pc = "check_eval"]
    /\ acl' = [acl EXCEPT !.lock = 0]
    /\ UNCHANGED <<AclIdle, log>>

\* the rules are evaluated outside the lock
CheckEvaluate(t) ==
    /\ threads[t].pc = "check_eval"
    /\ threads' = [threads EXCEPT ![t].pc = "done",
           ![t].result = IF Evaluate(threads[t].rules, threads[t].default_effect,
                                     EffectiveCaller(threads[t].caller_id),
                                     threads[t].target_id, threads[t].context)
                           THEN "allow" ELSE "deny"]
    /\ UNCHANGED <<AclIdle, acl, log>>

\* add_rule: self._rules.insert(0, rule) under the lock
AddRule(t, rule) ==
    /\ threads[t].pc = "idle"
    /\ Acquirable(acl.lock)
    /\ acl' = [acl EXCEPT !.rules = <<rule>> \o acl.rules]
    /\ threads' = [threads EXCEPT ![t] = AclThread("done", "add_rule")]
    /\ log' = log \cup {<<acl'.rules, acl'.default_effect>>}
    /\ UNCHANGED AclIdle

\* the rules without the first one that has these callers and targets
RemoveFirst(rules, callers, targets) ==
    LET hits == {i \in 1..Len(rules) :
                    rules[i].callers = callers /\ rules[i].targets = targets}
    IN  IF hits = {} THEN rules
        ELSE LET i == CHOOSE h \in hits : \A k \in hits : h <= k
             IN  SubSeq(rules, 1, i - 1) \o SubSeq(rules, i + 1, Len(rules))

\* remove_rule under the lock
RemoveRule(t, callers, targets) ==
    /\ threads[t].pc = "idle"
    /\ Acquirable(acl.lock)
    /\ acl' = [acl EXCEPT !.rules = RemoveFirst(acl.rules, callers, targets)]
    /\ threads' = [threads EXCEPT ![t] =
           [AclThread("done", "remove_rule") EXCEPT
                !.result = IF acl'.rules # acl.rules THEN "removed" ELSE "absent"]]
    /\ log' = log \cup {<<acl'.rules, acl'.default_effect>>}
    /\ UNCHANGED AclIdle

\* reload: yaml_path is read under the lock; without one reload raises
ReloadEnter(t) ==
    /\ threads[t].pc = "idle"
    /\ Acquirable(acl.lock)
    /\ threads' = [threads EXCEPT ![t] =
           IF acl.yaml_path = ""
             THEN [AclThread("done", "reload") EXCEPT !.result = "ACLRuleError"]
             ELSE AclThread("reload_load", "reload")]
    /\ UNCHANGED <<AclIdle, acl, log>>

\* reloaded = ACL.load(yaml_path), outside the lock
ReloadLoad(t, file) ==
    /\ threads[t].pc = "reload_load"
    /\ threads' = [threads EXCEPT ![t].reloaded = file, ![t].pc = "reload_lock"]
    /\ UNCHANGED <<AclIdle, acl, log>>

\* the second `with self._lock`
ReloadAcquire(t) ==
    /\ threads[t].pc = "reload_lock"
    /\ Acquirable(acl.lock)
    /\ acl' = [acl EXCEPT !.lock = t]
    /\ threads' = [threads EXCEPT ![t].pc = "reload_rules"]
    /\ UNCHANGED <<AclIdle, log>>

\* self._rules = reloaded._rules
ReloadSetRules(t) ==
    /\ threads[t].pc = "reload_rules"
    /\ acl' = [acl EXCEPT !.rules = threads[t].reloaded.rules]
    /\ threads' = [threads EXCEPT ![t].pc = "reload_default"]
    /\ UNCHANGED <<AclIdle, log>>

\* self._default_effect = reloaded._default_effect, and the lock is released
ReloadSetDefault(t) ==
    /\ threads[t].pc = "reload_default"
    /\ acl' = [acl EXCEPT !.default_effect = threads[t].reloaded.default_effect,
                          !.lock = 0]
    /\ threads' = [threads EXCEPT ![t].pc = "done"]
    /\ log' = log \cup {<<acl'.rules, acl'.default_effect>>}
    /\ UNCHANGED AclIdle

AclNext ==
    \/ \E t \in AclThreads, caller_id \in {None, IdA} :
           CheckEnter(t, caller_id, IdAB, NoContext)
    \/ \E t \in AclThreads : CheckCopyRules(t)
    \/ \E t \in AclThreads : CheckReadDefault(t)
    \/ \E t \in AclThreads : CheckEvaluate(t)
    \/ \E t \in AclThreads : AddRule(t, RuleDenyAll)
    \/ \E t \in AclThreads, rule \in {RuleDenyAll, RuleDenyExternal} :
           RemoveRule(t, rule.callers, rule.targets)
    \/ \E t \in AclThreads : ReloadEnter(t)
    \/ \E t \in AclThreads, file \in YamlFiles : ReloadLoad(t, file)
    \/ \E t \in AclThreads : ReloadAcquire(t)
    \/ \E t \in AclThreads : ReloadSetRules(t)
    \/ \E t \in AclThreads : ReloadSetDefault(t)

SpecAcl == AclInit /\ [][AclNext]_vars

\* ================================================= dependency resolution
\* module ids in the order sorted() gives them
IdOrder == <<"A", "B", "C">>
DepIds == Range(IdOrder)
Rank(id) == CHOOSE i \in 1..Len(IdOrder) : IdOrder[i] = id

\* sorted(S)
Sorted(S) ==
    CHOOSE s \in [1..Cardinality(S) -> S] :
        /\ Range(s) = S
        /\ \A i, j \in 1..Cardinality(S) : i < j => Rank(s[i]) < Rank(s[j])

\* the orders in which a set may be iterated
Orderings(S) == {s \in [1..Cardinality(S) -> S] : Range(s) = S}

\* DependencyInfo: dependencies on "C" are the ones declared optional
DependencyInfo(module_id) == [module_id |-> module_id, optional |-> module_id = "C"]
DepLists == SeqsUpTo({DependencyInfo(d) : d \in DepIds}, MaxDeps)

\* the batches handed to resolve_dependencies: (module_id, dependencies) pairs
Batches == {<<>>, <<"A">>, <<"A", "B">>, <<"A", "C">>, <<"A", "B", "C">>}
BatchInputs ==
    UNION {{[i \in 1..Len(b) |-> [module_id |-> b[i], deps |-> f[i]]] :
                f \in [1..Len(b) -> DepLists]} : b \in Batches}

KnownIds(batch) == {batch[i].module_id : i \in 1..Len(batch)}

\* the dependencies of a module that count: those within ids, in declared order
DepsWithin(batch, module_id, ids) ==
    LET m == CHOOSE i \in 1..Len(batch) : batch[i].module_id = module_id
        names == [i \in 1..Len(batch[m].deps) |-> batch[m].deps[i].module_id]
    IN  SelectSeq(names, LAMBDA d : d \in ids)

\* a required dependency that is not in known_ids
MissingRequired(batch) ==
    \E i \in 1..Len(batch) : \E k \in 1..Len(batch[i].deps) :
        /\ batch[i].deps[k].module_id \notin KnownIds(batch)
        /\ ~batch[i].deps[k].optional

\* graph[dep] : the set of modules that declare dep
Graph(batch) ==
    [d \in KnownIds(batch) |->
        {m \in KnownIds(batch) : d \in Range(DepsWithin(batch, m, KnownIds(batch)))}]

\* in_degree[module] : one per declared dependency found in known_ids
InDegree(batch) ==
    [m \in KnownIds(batch) |-> Len(DepsWithin(batch, m, KnownIds(batch)))]

\* the while loop of Kahn's sort
RECURSIVE Drain(_, _, _, _)
Drain(queue, in_degree, load_order, graph) ==
    IF queue = <<>> THEN load_order
    ELSE LET mod_id == Head(queue)
             lowered == [m \in DOMAIN in_degree |->
                            IF m \in graph[mod_id] THEN in_degree[m] - 1
                                                   ELSE in_degree[m]]
             ready == SelectSeq(Sorted(graph[mod_id]), LAMBDA m : lowered[m] = 0)
         IN  Drain(Tail(queue) \o ready, lowered, Append(load_order, mod_id), graph)

\* the modules in sorted order, whatever they depend on
LoadOrderSorted(batch) == Sorted(KnownIds(batch))

\* mutant: at every step the smallest of all released modules is emitted
RECURSIVE SmallestFirst(_, _)
SmallestFirst(batch, load_order) ==
    LET released == {m \in KnownIds(batch) \ Range(load_order) :
                        Range(DepsWithin(batch, m, KnownIds(batch))) \subseteq Range(load_order)}
    IN  IF released = {} THEN load_order
        ELSE SmallestFirst(batch, Append(load_order, Sorted(released)[1]))

LoadOrderSmallestFirst(batch) == SmallestFirst(batch, <<>>)

\* load_order as resolve_dependencies computes it
LoadOrder(batch) ==
    Drain(Sorted({m \in KnownIds(batch) : InDegree(batch)[m] = 0}),
          InDegree(batch), <<>>, Graph(batch))

\* the walk of _extract_cycle from the last module of visited
RECURSIVE Walk(_, _, _, _)
Walk(batch, remaining, visited, fallback) ==
    LET nexts == DepsWithin(batch, visited[Len(visited)], remaining)
    IN  IF nexts = <<>> THEN fallback
        ELSE IF nexts[1] \in Range(visited)
          THEN LET idx == CHOOSE i \in 1..Len(visited) : visited[i] = nexts[1]
               IN  Append(SubSeq(visited, idx, Len(visited)), nexts[1])
        ELSE Walk(batch, remaining, Append(visited, nexts[1]), fallback)

\* _extract_cycle, the set `remaining` being iterated in the order `iteration`
ExtractCycle(batch, iteration) ==
    Walk(batch, Range(iteration), <<iteration[1]>>, Append(iteration, iteration[1]))

Resolved(outcome, load_order, cycle_path) ==
    [outcome |-> outcome, load_order |-> load_order, cycle_path |-> cycle_path]

\* resolve_dependencies(modules, known_ids = the ids of the batch)
ResolveDependencies(batch, iteration) ==
    IF batch = <<>> THEN Resolved("returned", <<>>, <<>>)
    ELSE IF MissingRequired(batch) THEN Resolved("ModuleLoadError", <<>>, <<>>)
    ELSE IF Len(LoadOrder(batch)) < Len(batch)
      THEN Resolved("CircularDependencyError", <<>>, ExtractCycle(batch, iteration))
    ELSE Resolved("returned", LoadOrder(batch), <<>>)

\* the modules Kahn's sort left out
Remaining(batch) ==
    IF batch = <<>> \/ MissingRequired(batch) THEN {}
    ELSE KnownIds(batch) \ Range(LoadOrder(batch))

DepsInit ==
    /\ middlewares = <<>>
    /\ registry = {}
    /\ frames = <<>>
    /\ metrics_starts = <<>>
    /\ config = Config(DefaultTimeout, DefaultMaxCallDepth, DefaultMaxModuleRepeat)
    /\ calls = 0
    /\ mutations = 0
    /\ ObjectsIdle
    /\ chk \in [pc : {"fresh"}, batch : BatchInputs,
                resolved : {Resolved("", <<>>, <<>>)}]

DepsApply ==
    /\ chk.pc = "fresh"
    /\ \E iteration \in Orderings(Remaining(chk.batch)) :
           chk' = [chk EXCEPT !.pc = "resolved",
                       !.resolved = ResolveDependencies(chk.batch, iteration)]
    /\ UNCHANGED <<registry, execVars, objVars>>

DepsNext == DepsApply

SpecDeps == DepsInit /\ [][DepsNext]_vars

\* ============================================================== Registry
\* every `with self._write_lock` block is one step
RegThreads == 1..MaxRegThreads
RegIds == {"X", "Y"}
EventNames == {"register", "unregister"}

\* a module instance: the operation (and position in discover's batch) that
\* created it, and whether it has on_load / on_unload
Module(n, k, hooks) == [inst |-> <<n, k>>, hooks |-> hooks]
NoModule == Module(0, 0, FALSE)

\* the callbacks subscribed: "bad" raises whenever it is called
CallbackRaises(cb) == cb = "bad"
CallbackLists == {<<>>, <<"bad", "good">>}

\* what one callback invocation was given, and how it ended
Delivered(event, module_id, module, cb) ==
    [event |-> event, module_id |-> module_id, inst |-> module.inst, cb |-> cb,
     raised |-> CallbackRaises(cb)]

\* the order resolve_dependencies gave for the classes discover found
DiscoveredOrder == <<"X", "Y">>

\* a caller's position in an operation and the operation's locals; n numbers
\* the operations, count0 is the registry's count when the operation began
RegThread(pc, op, module_id, module) ==
    [pc |-> pc, op |-> op, module_id |-> module_id, module |-> module,
     event |-> "", cbs |-> <<>>, i |-> 0, result |-> "", n |-> 0, count0 |-> 0,
     load_order |-> <<>>, k |-> 0, registered_count |-> 0, failed |-> {}]

\* thread t begins an operation
Begin(t, th) ==
    [threads EXCEPT ![t] = [th EXCEPT !.n = threads[t].n,
                                      !.count0 = Cardinality(DOMAIN modules)]]

Done(th, result) == [th EXCEPT !.pc = "done", !.result = result]

\* dict operations on _modules
Put(ms, module_id, module) ==
    [id \in DOMAIN ms \cup {module_id} |-> IF id = module_id THEN module ELSE ms[id]]
Pop(ms, module_id) == [id \in DOMAIN ms \ {module_id} |-> ms[id]]

\* a registry with its subscribers, and the callers that will use it
RegistryStart(callers) ==
    /\ middlewares = <<>>
    /\ frames = <<>>
    /\ metrics_starts = <<>>
    /\ config = Config(DefaultTimeout, DefaultMaxCallDepth, DefaultMaxModuleRepeat)
    /\ calls = 0
    /\ mutations = 0
    /\ chk = IdleChk
    /\ acl = IdleAcl
    /\ registry = {}
    /\ modules = <<>>
    /\ \E cbs \in CallbackLists : callbacks = [register |-> cbs, unregister |-> cbs]
    /\ threads = [t \in RegThreads |->
                     [RegThread(IF t \in callers THEN "idle" ELSE "off", "", "",
                                NoModule) EXCEPT !.n = t]]
    /\ log = {}

\* several threads, one register call each
RegisterInit == RegistryStart(RegThreads)

\* one caller, one operation after the other
RegistryInit == RegistryStart({1})

RegistryIdle == <<execVars, chk, acl>>

\* register with the duplicate check left out
RegisterEnterUnchecked(t, module_id, hooks) ==
    /\ threads[t].pc = "idle"
    /\ LET th == RegThread("", "register", module_id, Module(threads[t].n, 0, hooks))
       IN  IF module_id = ""
             THEN /\ threads' = Begin(t, Done(th, "InvalidInputError"))
                  /\ UNCHANGED modules
             ELSE /\ modules' = Put(modules, module_id, th.module)
                  /\ threads' = Begin(t, [th EXCEPT
                         !.pc = IF hooks THEN "on_load" ELSE "trigger",
                         !.event = "register"])
    /\ registry' = DOMAIN modules'
    /\ UNCHANGED <<RegistryIdle, callbacks, log>>

\* mutant: a module with on_load is not inserted before on_load has run
RegisterEnterDeferred(t, module_id, hooks) ==
    /\ threads[t].pc = "idle"
    /\ LET th == RegThread("", "register", module_id, Module(threads[t].n, 0, hooks))
       IN  IF module_id = ""
             THEN /\ threads' = Begin(t, Done(th, "InvalidInputError"))
                  /\ UNCHANGED modules
           ELSE IF module_id \in DOMAIN modules
             THEN /\ threads' = Begin(t, Done(th, "duplicate"))
                  /\ UNCHANGED modules
             ELSE /\ modules' = IF hooks THEN modules ELSE Put(modules, module_id, th.module)
                  /\ threads' = Begin(t, [th EXCEPT
                         !.pc = IF hooks THEN "on_load" ELSE "trigger",
                         !.event = "register"])
    /\ registry' = DOMAIN modules'
    /\ UNCHANGED <<RegistryIdle, callbacks, log>>

\* register: the id check, then under the lock the duplicate check and the insert
RegisterEnter(t, module_id, hooks) ==
    /\ threads[t].pc = "idle"
    /\ LET th == RegThread("", "register", module_id, Module(threads[t].n, 0, hooks))
       IN  IF module_id = ""
             THEN /\ threads' = Begin(t, Done(th, "InvalidInputError"))
                  /\ UNCHANGED modules
           ELSE IF module_id \in DOMAIN modules
             THEN /\ threads' = Begin(t, Done(th, "duplicate"))
                  /\ UNCHANGED modules
             ELSE /\ modules' = Put(modules, module_id, th.module)
                  /\ threads' = Begin(t, [th EXCEPT
                         !.pc = IF hooks THEN "on_load" ELSE "trigger",
                         !.event = "register"])
    /\ registry' = DOMAIN modules'
    /\ UNCHANGED <<RegistryIdle, callbacks, log>>

\* module.on_load(), outside the lock, in register and in discover
OnLoad(t, raises) ==
    /\ threads[t].pc = "on_load"
    /\ threads' = [threads EXCEPT ![t].pc =
           IF ~raises THEN "trigger"
           ELSE IF threads[t].op = "register" THEN "rollback" ELSE "discard"]
    /\ UNCHANGED <<RegistryIdle, registry, modules, callbacks, log>>

\* register with the module left in place when on_load raised
RegisterRollbackKeep(t) ==
    /\ threads[t].pc = "rollback"
    /\ threads' = [threads EXCEPT ![t] = Done(threads[t], "on_load_error")]
    /\ UNCHANGED <<RegistryIdle, registry, modules, callbacks, log>>

\* register, on_load raised: self._modules.pop(module_id, None), then raise
RegisterRollback(t) ==
    /\ threads[t].pc = "rollback"
    /\ modules' = Pop(modules, threads[t].module_id)
    /\ registry' = DOMAIN modules'
    /\ threads' = [threads EXCEPT ![t] = Done(threads[t], "on_load_error")]
    /\ UNCHANGED <<RegistryIdle, callbacks, log>>

\* _trigger_event: callbacks = list(self._callbacks.get(event, [])) under the lock
TriggerSnapshot(t) ==
    /\ threads[t].pc = "trigger"
    /\ threads' = [threads EXCEPT ![t].cbs = callbacks[threads[t].event],
                                  ![t].i = 1, ![t].pc = "callbacks"]
    /\ UNCHANGED <<RegistryIdle, registry, modules, callbacks, log>>

\* what follows the module at position k of discover's load order
NextModule(th) ==
    IF th.k + 1 > Len(th.load_order)
      THEN Done(th, "returned")
      ELSE [th EXCEPT !.k = th.k + 1, !.pc = "instantiate"]

\* _trigger_event with an exception of a callback propagating
InvokeCallbackPropagating(t) ==
    /\ threads[t].pc = "callbacks"
    /\ threads[t].i <= Len(threads[t].cbs)
    /\ LET th == threads[t]
       IN  /\ log' = log \cup {Delivered(th.event, th.module_id, th.module, th.cbs[th.i])}
           /\ threads' = [threads EXCEPT ![t] =
                  IF CallbackRaises(th.cbs[th.i]) THEN Done(th, "callback_error")
                                                  ELSE [th EXCEPT !.i = th.i + 1]]
    /\ UNCHANGED <<RegistryIdle, registry, modules, callbacks>>

\* _trigger_event: cb(module_id, module); an exception is logged and swallowed
InvokeCallback(t) ==
    /\ threads[t].pc = "callbacks"
    /\ threads[t].i <= Len(threads[t].cbs)
    /\ LET th == threads[t]
       IN  /\ log' = log \cup {Delivered(th.event, th.module_id, th.module, th.cbs[th.i])}
           /\ threads' = [threads EXCEPT ![t].i = th.i + 1]
    /\ UNCHANGED <<RegistryIdle, registry, modules, callbacks>>

\* _trigger_event returns: register returns, unregister returns True, discover
\* counts the module and goes on
TriggerReturn(t) ==
    /\ threads[t].pc = "callbacks"
    /\ threads[t].i > Len(threads[t].cbs)
    /\ LET th == threads[t]
       IN  threads' = [threads EXCEPT ![t] =
               IF th.op = "register" THEN Done(th, "ok")
               ELSE IF th.op = "unregister" THEN Done(th, "true")
               ELSE NextModule([th EXCEPT !.registered_count = th.registered_count + 1])]
    /\ UNCHANGED <<RegistryIdle, registry, modules, callbacks, log>>

\* unregister: under the lock, False if absent, else the module is popped
UnregisterEnter(t, module_id) ==
    /\ threads[t].pc = "idle"
    /\ IF module_id \notin DOMAIN modules
         THEN /\ threads' = Begin(t, Done(RegThread("", "unregister", module_id, NoModule),
                                          "false"))
              /\ UNCHANGED modules
         ELSE /\ modules' = Pop(modules, module_id)
              /\ threads' = Begin(t,
                     [RegThread("", "unregister", module_id, modules[module_id]) EXCEPT
                         !.pc = IF modules[module_id].hooks THEN "on_unload" ELSE "trigger",
                         !.event = "unregister"])
    /\ registry' = DOMAIN modules'
    /\ UNCHANGED <<RegistryIdle, callbacks, log>>

\* module.on_unload(): an exception is logged and swallowed
OnUnload(t, raises) ==
    /\ threads[t].pc = "on_unload"
    /\ threads' = [threads EXCEPT ![t].pc = "trigger"]
    /\ UNCHANGED <<RegistryIdle, registry, modules, callbacks, log>>

\* discover, steps 1-7: the classes found, in dependency order
DiscoverEnter(t) ==
    /\ threads[t].pc = "idle"
    /\ threads' = Begin(t, [RegThread("instantiate", "discover", "", NoModule) EXCEPT
                               !.load_order = DiscoveredOrder, !.k = 1])
    /\ UNCHANGED <<RegistryIdle, registry, modules, callbacks, log>>

\* discover, step 8: module = cls() fails and the module is skipped, or the
\* instance is stored under the lock
DiscoverInstantiate(t, fails, hooks) ==
    /\ threads[t].pc = "instantiate"
    /\ LET th == threads[t]
           mod_id == th.load_order[th.k]
       IN  IF fails
             THEN /\ threads' = [threads EXCEPT ![t] =
                         NextModule([th EXCEPT !.failed = th.failed \cup {mod_id}])]
                  /\ UNCHANGED modules
             ELSE /\ modules' = Put(modules, mod_id, Module(th.n, th.k, hooks))
                  /\ threads' = [threads EXCEPT ![t] =
                         [th EXCEPT !.module_id = mod_id,
                                    !.module = Module(th.n, th.k, hooks),
                                    !.event = "register",
                                    !.pc = IF hooks THEN "on_load" ELSE "trigger"]]
    /\ registry' = DOMAIN modules'
    /\ UNCHANGED <<RegistryIdle, callbacks, log>>

\* discover with a module whose on_load raised kept and counted
DiscoverDiscardCounted(t) ==
    /\ threads[t].pc = "discard"
    /\ threads' = [threads EXCEPT ![t] =
           NextModule([threads[t] EXCEPT
               !.failed = threads[t].failed \cup {threads[t].module_id},
               !.registered_count = threads[t].registered_count + 1])]
    /\ UNCHANGED <<RegistryIdle, registry, modules, callbacks, log>>

\* discover, on_load raised: the module is popped and the loop continues
DiscoverDiscard(t) ==
    /\ threads[t].pc = "discard"
    /\ modules' = Pop(modules, threads[t].module_id)
    /\ registry' = DOMAIN modules'
    /\ threads' = [threads EXCEPT ![t] =
           NextModule([threads[t] EXCEPT
               !.failed = threads[t].failed \cup {threads[t].module_id}])]
    /\ UNCHANGED <<RegistryIdle, callbacks, log>>

\* on(event, callback): appended under the lock; an unknown event raises
On(t, event, cb) ==
    /\ threads[t].pc = "idle"
    /\ IF event \in EventNames
         THEN /\ callbacks' = [callbacks EXCEPT ![event] = Append(callbacks[event], cb)]
              /\ threads' = Begin(t, Done(RegThread("", "on", "", NoModule), "ok"))
         ELSE /\ threads' = Begin(t, Done(RegThread("", "on", "", NoModule),
                                          "InvalidInputError"))
              /\ UNCHANGED callbacks
    /\ UNCHANGED <<RegistryIdle, registry, modules, log>>

\* the caller's operation has returned or raised: the next one may begin
Again(t) ==
    /\ threads[t].pc = "done"
    /\ threads[t].n < MaxRegOps
    /\ threads' = [threads EXCEPT ![t] =
           [RegThread("idle", "", "", NoModule) EXCEPT !.n = threads[t].n + 1]]
    /\ UNCHANGED <<RegistryIdle, registry, modules, callbacks, log>>

RegisterNext ==
    \/ \E t \in RegThreads, module_id \in RegIds \cup {""}, hooks \in BOOLEAN :
           RegisterEnter(t, module_id, hooks)
    \/ \E t \in RegThreads, raises \in BOOLEAN : OnLoad(t, raises)
    \/ \E t \in RegThreads : RegisterRollback(t)
    \/ \E t \in RegThreads : TriggerSnapshot(t)
    \/ \E t \in RegThreads : InvokeCallback(t)
    \/ \E t \in RegThreads : TriggerReturn(t)

SpecRegister == RegisterInit /\ [][RegisterNext]_vars

RegistryNext ==
    \/ RegisterNext
    \/ \E t \in RegThreads, module_id \in RegIds : UnregisterEnter(t, module_id)
    \/ \E t \in RegThreads, raises \in BOOLEAN : OnUnload(t, raises)
    \/ \E t \in RegThreads : DiscoverEnter(t)
    \/ \E t \in RegThreads, fails \in BOOLEAN, hooks \in BOOLEAN :
           DiscoverInstantiate(t, fails, hooks)
    \/ \E t \in RegThreads : DiscoverDiscard(t)
    \/ \E t \in RegThreads, event \in EventNames \cup {"reload"} :
           On(t, event, "late")
    \/ \E t \in RegThreads : Again(t)

SpecRegistry == RegistryInit /\ [][RegistryNext]_vars

\* ================================================================ Context
\* an executor nobody is calling, for the parts that are applied on their own
ExecutorIdle ==
    /\ ObjectsIdle
    /\ middlewares = <<>>
    /\ registry = {"X"}
    /\ frames = <<>>
    /\ metrics_starts = <<>>
    /\ config = Config(DefaultTimeout, DefaultMaxCallDepth, DefaultMaxModuleRepeat)
    /\ calls = 0
    /\ mutations = 0

\* A Context holds a reference to its call_chain list (an index into the heap
\* of list objects) and to the data dict it shares with its parent; parent and
\* target record which child() call made it (0 and "": made by the caller).
Context(call_chain, caller_id, data, parent, target) ==
    [call_chain |-> call_chain, caller_id |-> caller_id, data |-> data,
     parent |-> parent, target |-> target]

\* mutant: child appends to the parent's own list and hands it on
ContextChildShared(heap, ctxs, c, target_module_id) ==
    LET self == ctxs[c]
        chain == heap[self.call_chain]
    IN  [heap |-> [heap EXCEPT ![self.call_chain] = Append(@, target_module_id)],
         ctx |-> Context(self.call_chain,
                         IF chain # <<>> THEN chain[Len(chain)] ELSE "",
                         self.data, c, target_module_id)]

\* Context.child: a new list [*self.call_chain, target_module_id]; caller_id is
\* the last entry of the parent's chain (None, here "", when it is empty)
ContextChild(heap, ctxs, c, target_module_id) ==
    LET self == ctxs[c]
        chain == heap[self.call_chain]
    IN  [heap |-> Append(heap, Child(chain, target_module_id)),
         ctx |-> Context(Len(heap) + 1,
                         IF chain # <<>> THEN chain[Len(chain)] ELSE "",
                         self.data, c, target_module_id)]

\* Context.create (empty chain) or a context the caller built with a chain
ContextInit ==
    /\ ExecutorIdle
    /\ chk \in {[pc |-> "contexts", heap |-> <<chain>>,
                 ctxs |-> <<Context(1, "", 1, 0, "")>>] : chain \in CallerChains}

\* ctx = context.child(module_id), on any context made so far
ChildOf(c, module_id) ==
    /\ c <= Len(chk.ctxs)
    /\ Len(chk.ctxs) < MaxContexts
    /\ LET r == ContextChild(chk.heap, chk.ctxs, c, module_id)
       IN  chk' = [chk EXCEPT !.heap = r.heap, !.ctxs = Append(@, r.ctx)]
    /\ UNCHANGED <<execVars, registry, objVars>>

ContextNext == \E c \in 1..MaxContexts, module_id \in Modules : ChildOf(c, module_id)

SpecContext == ContextInit /\ [][ContextNext]_vars

\* ============================================================== redaction
\* JSON values: every value is a record of its kind and its content
Str(text) == [kind |-> "str", of |-> text]
Null == [kind |-> "null", of |-> ""]
Dict(items) == [kind |-> "dict", of |-> items]
List(items) == [kind |-> "list", of |-> items]

REDACTED_VALUE == Str("***REDACTED***")

\* keys are sequences of tokens; "_secret_" stands for those eight characters
SecretPrefix == <<"_secret_">>

\* the mapping holding the given <<key, value>> entries
Entries(pairs) ==
    [k \in {e[1] : e \in pairs} |-> (CHOOSE e \in pairs : e[1] = k)[2]]

\* a JSON Schema node as _redact_fields reads it: "type" ("" when absent),
\* "x-sensitive" is True, "properties" and "items" (<<>> when absent)
SchemaNode(type, sensitive, properties, items) ==
    [type |-> type, sensitive |-> sensitive, properties |-> properties,
     items |-> items]

\* mutant: the loop over the items of an array writes to the neighbouring index
RECURSIVE RedactFields(_, _)
RedactFieldsShifted(data, schema_dict) ==
    LET Field(value, field_schema) ==
            IF field_schema.sensitive
              THEN IF value = Null THEN value ELSE REDACTED_VALUE
            ELSE IF /\ field_schema.type = "object"
                    /\ field_schema.properties # <<>>
                    /\ value.kind = "dict"
              THEN RedactFields(value, field_schema)
            ELSE IF /\ field_schema.type = "array"
                    /\ field_schema.items # <<>>
                    /\ value.kind = "list"
              THEN LET items_schema == field_schema.items[1]
                       n == Len(value.of)
                   IN  IF items_schema.sensitive
                         THEN List([i \in 1..n |->
                                 IF value.of[(i % n) + 1] # Null THEN REDACTED_VALUE
                                 ELSE value.of[i]])
                       ELSE value
            ELSE value
    IN  IF schema_dict.properties = <<>> \/ DOMAIN schema_dict.properties[1] = {}
          THEN data
          ELSE Dict([k \in DOMAIN data.of |->
                      IF k \in DOMAIN schema_dict.properties[1]
                        THEN Field(data.of[k], schema_dict.properties[1][k])
                        ELSE data.of[k]])

\* _redact_fields: each property of the schema that the data has is handled on
\* its own (sensitive; nested object; array), the others are left as they are
RedactFields(data, schema_dict) ==
    LET Field(value, field_schema) ==
            IF field_schema.sensitive
              THEN IF value = Null THEN value ELSE REDACTED_VALUE
            ELSE IF /\ field_schema.type = "object"
                    /\ field_schema.properties # <<>>
                    /\ value.kind = "dict"
              THEN RedactFields(value, field_schema)
            ELSE IF /\ field_schema.type = "array"
                    /\ field_schema.items # <<>>
                    /\ value.kind = "list"
              THEN LET items_schema == field_schema.items[1]
                   IN  IF items_schema.sensitive
                         THEN List([i \in 1..Len(value.of) |->
                                 IF value.of[i] # Null THEN REDACTED_VALUE
                                 ELSE value.of[i]])
                       ELSE IF /\ items_schema.type = "object"
                               /\ items_schema.properties # <<>>
                         THEN List([i \in 1..Len(value.of) |->
                                 IF value.of[i].kind = "dict"
                                   THEN RedactFields(value.of[i], items_schema)
                                   ELSE value.of[i]])
                       ELSE value
            ELSE value
    IN  IF schema_dict.properties = <<>> \/ DOMAIN schema_dict.properties[1] = {}
          THEN data
          ELSE Dict([k \in DOMAIN data.of |->
                      IF k \in DOMAIN schema_dict.properties[1]
                        THEN Field(data.of[k], schema_dict.properties[1][k])
                        ELSE data.of[k]])

\* _redact_secret_prefix
RedactSecretPrefix(data) ==
    Dict([key \in DOMAIN data.of |->
            IF StartsWith(key, SecretPrefix) /\ data.of[key] # Null
              THEN REDACTED_VALUE ELSE data.of[key]])

\* redact_sensitive (the deep copy leaves the argument as it was)
RedactSensitive(data, schema_dict) ==
    RedactSecretPrefix(RedactFields(data, schema_dict))

\* the inputs tried: for each key, absent or one of a few values
RedactData ==
    {Dict(Entries(P \cup S \cup X \cup A \cup L)) :
        P \in {{}, {<<(<<"p">>), Str("v")>>}, {<<(<<"p">>), Null>>}},
        S \in {{}, {<<(<<"_secret_", "k">>), Str("v")>>}, {<<(<<"_secret_", "k">>), Null>>}},
        X \in {{}, {<<(<<"x", "_secret_">>), Str("v")>>}},
        A \in {{}, {<<(<<"a">>), Dict(Entries({<<(<<"p">>), Str("v")>>}))>>},
                   {<<(<<"a">>), Dict(Entries({<<(<<"p">>), Null>>,
                                               <<(<<"_secret_", "k">>), Str("v")>>}))>>}},
        L \in {{}, {<<(<<"l">>), List(<<Str("v"), Null>>)>>},
                   {<<(<<"l">>), List(<<Dict(Entries({<<(<<"p">>), Str("v")>>}))>>)>>},
                   {<<(<<"l">>), List(<<List(<<Str("v")>>)>>)>>}}}

\* a schema whose only property is p, marked sensitive
SensitiveP(type) ==
    SchemaNode(type, FALSE,
               <<Entries({<<(<<"p">>), SchemaNode("string", TRUE, <<>>, <<>>)>>})>>, <<>>)

\* the schemas tried: p plain or sensitive; a an object (with or without
\* "type") or sensitive as a whole; l an array of sensitive items, of objects
\* or of arrays
RedactSchemas ==
    {SchemaNode("object", FALSE, <<Entries(P \cup A \cup L)>>, <<>>) :
        P \in {{}, {<<(<<"p">>), SchemaNode("string", FALSE, <<>>, <<>>)>>},
                   {<<(<<"p">>), SchemaNode("string", TRUE, <<>>, <<>>)>>}},
        A \in {{}, {<<(<<"a">>), SensitiveP("object")>>},
                   {<<(<<"a">>), SensitiveP("")>>},
                   {<<(<<"a">>), [SensitiveP("object") EXCEPT !.sensitive = TRUE]>>}},
        L \in {{}, {<<(<<"l">>), SchemaNode("array", FALSE, <<>>,
                                     <<SchemaNode("", TRUE, <<>>, <<>>)>>)>>},
                   {<<(<<"l">>), SchemaNode("array", FALSE, <<>>,
                                     <<SensitiveP("object")>>)>>},
                   {<<(<<"l">>), SchemaNode("array", FALSE, <<>>,
                                     <<SchemaNode("array", FALSE, <<>>,
                                         <<SchemaNode("string", TRUE, <<>>, <<>>)>>)>>)>>}}}

\* input_schema.model_validate(inputs) succeeds (step 5): the value has the
\* type its schema names; None passes everywhere (optional fields)
RECURSIVE Validates(_, _)
Validates(value, node) ==
    \/ value = Null
    \/ /\ node.type = "string" => value.kind = "str"
       /\ node.type = "object" => value.kind = "dict"
       /\ node.type = "array" => value.kind = "list"
       /\ (value.kind = "dict" /\ node.properties # <<>>) =>
             \A k \in DOMAIN value.of \cap DOMAIN node.properties[1] :
                 Validates(value.of[k], node.properties[1][k])
       /\ (value.kind = "list" /\ node.items # <<>>) =>
             \A i \in 1..Len(value.of) : Validates(value.of[i], node.items[1])

RedactInit ==
    /\ ExecutorIdle
    /\ chk \in {c \in [pc : {"validated"}, data : RedactData, schema : RedactSchemas,
                       redacted : {Null}, again : {Null}] :
                  Validates(c.data, c.schema)}

\* ctx.redacted_inputs = redact_sensitive(inputs, schema)
RedactApply ==
    /\ chk.pc = "validated"
    /\ chk' = [chk EXCEPT !.pc = "redacted",
                          !.redacted = RedactSensitive(chk.data, chk.schema)]
    /\ UNCHANGED <<execVars, registry, objVars>>

\* redact_sensitive applied to its own result
RedactAgain ==
    /\ chk.pc = "redacted"
    /\ chk' = [chk EXCEPT !.pc = "again",
                          !.again = RedactSensitive(chk.redacted, chk.schema)]
    /\ UNCHANGED <<execVars, registry, objVars>>

RedactNext == RedactApply \/ RedactAgain

SpecRedact == RedactInit /\ [][RedactNext]_vars

\* ========================================== match_pattern applied on its own
\* patterns and ids over two letters (and the wildcard, for patterns)
PatternInit ==
    /\ ExecutorIdle
    /\ chk \in [pc : {"fresh"}, pattern : SeqsUpTo({"a", "b", Star}, MaxPatternLen),
                module_id : SeqsUpTo({"a", "b"}, MaxIdLen), result : {FALSE}]

PatternApply ==
    /\ chk.pc = "fresh"
    /\ chk' = [chk EXCEPT !.pc = "matched",
                          !.result = MatchPattern(chk.pattern, chk.module_id)]
    /\ UNCHANGED <<execVars, registry, objVars>>

PatternNext == PatternApply

SpecPattern == PatternInit /\ [][PatternNext]_vars

\* ================================================ _execute_with_timeout
\* One caller makes synchronous calls one after the other.  A call with a
\* positive timeout runs a synchronous execute on a worker thread (threads) and
\* an asynchronous execute as a coroutine under asyncio.wait_for; log holds how
\* each call ended.  Outputs and errors are named by the call that made them.
Worker(n, kind, holder) ==
    [n |-> n, kind |-> kind, state |-> "running", holder |-> holder]

\* result_holder / exception_holder: 0 stands for a key that is absent
EmptyHolder == [output |-> 0, error |-> 0]

\* mutant: one pair of holders kept by the executor for all calls
HolderShared(n) == 1

\* the holders are locals of the call: every call has its own pair
HolderOf(n) == n

ModuleTimeoutError(module_id, timeout_ms) ==
    [type |-> "ModuleTimeoutError", by |-> module_id, timeout_ms |-> timeout_ms]

\* the exception that execute raised in call n
ExecuteRaised(n) == [type |-> "ModuleError", of |-> n]

\* how a call ended
Ended_call(c, outcome, value, error) ==
    [n |-> c.n, module_id |-> c.module_id, is_async |-> c.is_async,
     has_loop |-> c.has_loop, worker |-> c.worker, elapsed |-> c.elapsed,
     outcome |-> outcome, value |-> value, error |-> error]

TimedIdle == <<middlewares, registry, frames, metrics_starts, config, calls,
               mutations, acl, modules, callbacks>>

TimedInit ==
    /\ ObjectsIdle
    /\ middlewares = <<>>
    /\ registry = Modules
    /\ frames = <<>>
    /\ metrics_starts = <<>>
    /\ config \in {Config(t, DefaultMaxCallDepth, DefaultMaxModuleRepeat) :
                     t \in {-1, 0, DefaultTimeout}}
    /\ calls = 0
    /\ mutations = 0
    /\ chk = [pc |-> "idle", n |-> 0, module_id |-> "", is_async |-> FALSE,
              has_loop |-> FALSE, worker |-> 0, elapsed |-> FALSE,
              holders |-> [i \in 1..MaxTimedCalls |-> EmptyHolder]]

\* entry of _execute_with_timeout: the negative timeout, the bridge for an
\* async execute, the direct call for timeout 0, or the worker thread
ExecuteWithTimeout(module_id, is_async, has_loop) ==
    /\ chk.pc = "idle"
    /\ chk.n < MaxTimedCalls
    /\ has_loop => is_async
    /\ LET c == [chk EXCEPT !.n = @ + 1, !.module_id = module_id,
                            !.is_async = is_async, !.has_loop = has_loop,
                            !.worker = 0, !.elapsed = FALSE]
           w == Len(threads) + 1
       IN  IF config.default_timeout < 0
             THEN /\ chk' = c
                  /\ log' = Append(log, Ended_call(c, "raise", 0,
                                       Error("InvalidInputError", module_id)))
                  /\ UNCHANGED threads
           ELSE IF is_async
             THEN /\ chk' = [c EXCEPT !.pc = "bridge", !.worker = w]
                  /\ threads' = Append(threads, Worker(c.n, "coro", 0))
                  /\ UNCHANGED log
           ELSE IF config.default_timeout = 0
             THEN /\ chk' = [c EXCEPT !.pc = "inline"]
                  /\ UNCHANGED <<threads, log>>
           ELSE /\ chk' = [c EXCEPT !.pc = "join", !.worker = w]
                /\ threads' = Append(threads, Worker(c.n, "thread", HolderOf(c.n)))
                /\ UNCHANGED log
    /\ UNCHANGED TimedIdle

\* timeout 0: module.execute runs in the caller and returns or raises
InlineEnds(raises) ==
    /\ chk.pc = "inline"
    /\ chk' = [chk EXCEPT !.pc = "idle"]
    /\ log' = Append(log, IF raises
                            THEN Ended_call(chk, "raise", 0, ExecuteRaised(chk.n))
                            ELSE Ended_call(chk, "return", chk.n, NoError))
    /\ UNCHANGED <<TimedIdle, threads>>

\* run_module: execute returns or raises on the worker, whenever that is
WorkerEnds(w, raises) ==
    /\ w \in DOMAIN threads
    /\ threads[w].kind = "thread"
    /\ threads[w].state = "running"
    /\ threads' = [threads EXCEPT ![w].state = IF raises THEN "raised" ELSE "returned"]
    /\ chk' = [chk EXCEPT !.holders[threads[w].holder] =
                  IF raises THEN [@ EXCEPT !.error = threads[w].n]
                            ELSE [@ EXCEPT !.output = threads[w].n]]
    /\ UNCHANGED <<TimedIdle, log>>

\* thread.join(timeout) returns: the worker has ended, or the timeout elapsed
JoinEnds ==
    /\ chk.pc = "join"
    /\ chk' = [chk EXCEPT !.pc = "alive",
                          !.elapsed = (threads[chk.worker].state = "running")]
    /\ UNCHANGED <<TimedIdle, threads, log>>

\* if thread.is_alive(): raise ModuleTimeoutError; else the holders decide
AliveCheck ==
    /\ chk.pc = "alive"
    /\ LET h == chk.holders[threads[chk.worker].holder]
       IN  log' = Append(log,
                IF threads[chk.worker].state = "running"
                  THEN Ended_call(chk, "raise", 0,
                           ModuleTimeoutError(chk.module_id, config.default_timeout))
                ELSE IF h.error # 0
                  THEN Ended_call(chk, "raise", 0, ExecuteRaised(h.error))
                  ELSE Ended_call(chk, "return", h.output, NoError))
    /\ chk' = [chk EXCEPT !.pc = "idle"]
    /\ UNCHANGED <<TimedIdle, threads>>

\* the ways a coroutine ends by itself; "timed_out" is an asyncio.TimeoutError
\* of its own
CoroEndings == {"returned", "raised", "timed_out"}

\* the coroutine of an async execute ends by itself (also after it has caught
\* its cancellation)
CoroEnds(w, how) ==
    /\ w \in DOMAIN threads
    /\ threads[w].kind = "coro"
    /\ threads[w].state \in {"running", "shielded"}
    /\ threads' = [threads EXCEPT ![w].state = how]
    /\ UNCHANGED <<TimedIdle, chk, log>>

\* asyncio.wait_for: the timeout elapses and the coroutine is cancelled at the
\* await it is suspended in
TimerFires ==
    /\ chk.pc = "bridge"
    /\ config.default_timeout > 0
    /\ threads[chk.worker].state = "running"
    /\ threads' = [threads EXCEPT ![chk.worker].state = "cancelling"]
    /\ chk' = [chk EXCEPT !.elapsed = TRUE]
    /\ UNCHANGED <<TimedIdle, log>>

\* the coroutine lets the CancelledError through, or catches it and goes on
CoroCancelled(w, swallows) ==
    /\ w \in DOMAIN threads
    /\ threads[w].state = "cancelling"
    /\ threads' = [threads EXCEPT ![w].state = IF swallows THEN "shielded" ELSE "cancelled"]
    /\ UNCHANGED <<TimedIdle, chk, log>>

\* mutant: the thread with its own loop hands the TimeoutError on as it is
BridgeOutcomeRaw(c, state) ==
    CASE state = "returned" -> Ended_call(c, "return", c.n, NoError)
      [] state = "raised" -> Ended_call(c, "raise", 0, ExecuteRaised(c.n))
      [] state \in {"cancelled", "timed_out"} ->
            Ended_call(c, "raise", 0,
                       IF c.has_loop THEN Error("TimeoutError", c.module_id)
                       ELSE Error("ModuleTimeoutError", c.module_id))

\* what _run_async_in_sync / _run_in_new_thread hand to the caller once
\* wait_for is over: the result, the coroutine's exception, or, for a cancelled
\* coroutine, ModuleTimeoutError (asyncio.TimeoutError converted)
BridgeOutcome(c, state) ==
    CASE state = "returned" -> Ended_call(c, "return", c.n, NoError)
      [] state = "raised" -> Ended_call(c, "raise", 0, ExecuteRaised(c.n))
      [] state \in {"cancelled", "timed_out"} ->
            Ended_call(c, "raise", 0, Error("ModuleTimeoutError", c.module_id))

\* asyncio.run(wrapped) returns, or thread.join() returns: in both cases only
\* once the coroutine has ended
BridgeEnds ==
    /\ chk.pc = "bridge"
    /\ threads[chk.worker].state \in CoroEndings \cup {"cancelled"}
    /\ log' = Append(log, BridgeOutcome(chk, threads[chk.worker].state))
    /\ chk' = [chk EXCEPT !.pc = "idle"]
    /\ UNCHANGED <<TimedIdle, threads>>

TimedNext ==
    \/ \E m \in Modules, a, l \in BOOLEAN : ExecuteWithTimeout(m, a, l)
    \/ \E raises \in BOOLEAN : InlineEnds(raises)
    \/ \E w \in 1..MaxTimedCalls, raises \in BOOLEAN : WorkerEnds(w, raises)
    \/ JoinEnds
    \/ AliveCheck
    \/ \E w \in 1..MaxTimedCalls, how \in CoroEndings : CoroEnds(w, how)
    \/ TimerFires
    \/ \E w \in 1..MaxTimedCalls, swallows \in BOOLEAN : CoroCancelled(w, swallows)
    \/ BridgeEnds

SpecTimed == TimedInit /\ [][TimedNext]_vars

\* ====================================== the on_error cascades on their own
\* what an on_error handler may do: return None, a mapping or some other
\* value, or raise
OnErrorResults == HookResults \cup {"other"}

\* a list of executed middlewares and what each handler does, handed to
\* MiddlewareManager.execute_on_error and to Executor._execute_on_error_async
CascadeInit ==
    /\ ExecutorIdle
    /\ chk \in [pc : {"fresh"},
                executed : {s \in SeqsUpTo(Plain, Cardinality(Plain)) : NoDup(s)},
                choices : [Plain -> OnErrorResults],
                sync : {<<>>}, async : {<<>>}]

CascadeState(executed) ==
    [ChainState(NewFrame("call", "X", <<>>, <<>>), <<>>) EXCEPT !.executed = executed]

CascadeSync ==
    /\ chk.pc = "fresh"
    /\ chk' = [chk EXCEPT !.pc = "sync",
                  !.sync = <<ExecuteOnError(chk.executed, chk.choices, FALSE,
                                            CascadeState(chk.executed))>>]
    /\ UNCHANGED <<execVars, registry, objVars>>

CascadeAsync ==
    /\ chk.pc = "sync"
    /\ chk' = [chk EXCEPT !.pc = "both",
                  !.async = <<ExecuteOnError(chk.executed, chk.choices, TRUE,
                                             CascadeState(chk.executed))>>]
    /\ UNCHANGED <<execVars, registry, objVars>>

CascadeNext ==
    \/ CascadeSync
    \/ CascadeAsync

SpecCascade == CascadeInit /\ [][CascadeNext]_vars

\* ===================================================== LoggingMiddleware
\* One call tree under an executor with LoggingMiddleware installed: the calls
\* in flight (innermost last) with the time their before hook ran, the
\* ctx.data dict that Context.child hands on to every nested call, and what
\* the after hook logged.  NoStart stands for an absent "_logging_mw_start".
NoStart == 0 - 1

LoggingInit ==
    /\ ExecutorIdle
    /\ chk = [now |-> 0, data |-> NoStart, stack |-> <<>>, logged |-> <<>>, n |-> 0]

\* time passes
Tick ==
    /\ chk.now < MaxClock
    /\ chk' = [chk EXCEPT !.now = @ + 1]
    /\ UNCHANGED <<execVars, registry, objVars>>

\* a call (top-level, or nested from the module that is executing) reaches
\* LoggingMiddleware.before: context.data["_logging_mw_start"] = time.time();
\* a top-level call brings a fresh data dict
LoggingBefore(module_id) ==
    /\ Len(chk.stack) < MaxLoggedDepth
    /\ chk.n < MaxLoggedCalls
    /\ chk' = [chk EXCEPT !.data = chk.now, !.n = @ + 1,
                          !.stack = Append(@, [module_id |-> module_id, began |-> chk.now])]
    /\ UNCHANGED <<execVars, registry, objVars>>

\* LoggingMiddleware.after: start_time = context.data.get("_logging_mw_start",
\* time.time()); duration = time.time() - start_time
AfterDuration(data, call, now) == IF data = NoStart THEN 0 ELSE now - data

\* the innermost call returns: LoggingMiddleware.after logs its duration
LoggingAfter ==
    /\ chk.stack # <<>>
    /\ LET call == chk.stack[Len(chk.stack)]
       IN  chk' = [chk EXCEPT
               !.stack = Front(@),
               !.logged = Append(@, [module_id |-> call.module_id,
                                     depth |-> Len(chk.stack),
                                     began |-> call.began, ended |-> chk.now,
                                     duration_ms |-> AfterDuration(chk.data, call, chk.now)])]
    /\ UNCHANGED <<execVars, registry, objVars>>

\* the innermost call fails: LoggingMiddleware.on_error logs no duration
LoggingOnError ==
    /\ chk.stack # <<>>
    /\ chk' = [chk EXCEPT !.stack = Front(@)]
    /\ UNCHANGED <<execVars, registry, objVars>>

LoggingNext ==
    \/ Tick
    \/ \E module_id \in Modules : LoggingBefore(module_id)
    \/ LoggingAfter
    \/ LoggingOnError

SpecLogging == LoggingInit /\ [][LoggingNext]_vars

\* ====================================================== async-kind cache
\* The registry as a mapping from id to whether the registered module's
\* execute is a coroutine function, the executor's _async_cache, and the last
\* answer _is_async_module gave (with what inspect would have said).
NoAnswer == [module_id |-> "", cached |-> FALSE, is_async |-> FALSE, actual |-> FALSE]

AsyncCacheInit ==
    /\ ObjectsIdle
    /\ middlewares = <<>>
    /\ registry = {}
    /\ frames = <<>>
    /\ metrics_starts = <<>>
    /\ config = Config(DefaultTimeout, DefaultMaxCallDepth, DefaultMaxModuleRepeat)
    /\ calls = 0
    /\ mutations = 0
    /\ chk = [kinds |-> <<>>, async_cache |-> <<>>, answer |-> NoAnswer]

AsyncCacheIdle == <<middlewares, frames, metrics_starts, config, calls, mutations, objVars>>

\* Registry.register(module_id, module) of a module whose execute is or is not
\* async
CacheRegister(module_id, is_async) ==
    /\ module_id \notin registry
    /\ registry' = registry \cup {module_id}
    /\ chk' = [chk EXCEPT !.kinds = Put(@, module_id, is_async)]
    /\ UNCHANGED AsyncCacheIdle

\* Registry.unregister(module_id): the executor is not told
CacheUnregister(module_id) ==
    /\ module_id \in registry
    /\ registry' = registry \ {module_id}
    /\ chk' = [chk EXCEPT !.kinds = Pop(@, module_id)]
    /\ UNCHANGED AsyncCacheIdle

\* a call of a registered module reaches _is_async_module(module_id, module)
IsAsyncModule(module_id) ==
    /\ module_id \in registry
    /\ LET actual == chk.kinds[module_id]
       IN  IF module_id \in DOMAIN chk.async_cache
             THEN chk' = [chk EXCEPT !.answer =
                      [module_id |-> module_id, cached |-> TRUE,
                       is_async |-> chk.async_cache[module_id], actual |-> actual]]
             ELSE chk' = [chk EXCEPT
                      !.async_cache = Put(@, module_id, actual),
                      !.answer = [module_id |-> module_id, cached |-> FALSE,
                                  is_async |-> actual, actual |-> actual]]
    /\ UNCHANGED <<AsyncCacheIdle, registry>>

AsyncCacheNext ==
    \/ \E module_id \in Modules, is_async \in BOOLEAN : CacheRegister(module_id, is_async)
    \/ \E module_id \in Modules : CacheUnregister(module_id)
    \/ \E module_id \in Modules : IsAsyncModule(module_id)

SpecAsyncCache == AsyncCacheInit /\ [][AsyncCacheNext]_vars

\* =============================================== Registry._write_lock
\* Threads that each make one register, unregister or discover call for the
\* id "X", with the reentrant lock spelled out: chk.lock is its owner and
\* depth, chk.changes the changes of _modules in the order they took effect,
\* log the events in the order the subscriber was given them.  A hook
\* (on_load, on_unload, the subscriber) may call back into the registry
\* itself, or wait for a helper thread that does.
LockThreads == 1..MaxLockThreads
LockOps == {"register", "unregister", "discover"}
HookWants == {"none", "self", "helper"}
LockPcs == {"lock_insert", "lock_store", "lock_pop", "lock_rollback", "lock_trigger"}
HookPcs == {"on_load", "on_unload", "callback"}
FreeLock == [owner |-> 0, depth |-> 0]

LockThread(pc, op, wants) ==
    [pc |-> pc, op |-> op, wants |-> wants, called |-> FALSE, result |-> ""]

Change(event, t) == [event |-> event, by |-> t]

\* mutant: every call triggers the `register` event
EventOfRegisterOnly(th) == "register"

\* the event a call triggers
EventOf(th) == IF th.op = "unregister" THEN "unregister" ELSE "register"

LockInit ==
    /\ middlewares = <<>>
    /\ frames = <<>>
    /\ metrics_starts = <<>>
    /\ config = Config(DefaultTimeout, DefaultMaxCallDepth, DefaultMaxModuleRepeat)
    /\ calls = 0
    /\ mutations = 0
    /\ acl = IdleAcl
    /\ registry = {}
    /\ modules = <<>>
    /\ callbacks = [register |-> <<"good">>, unregister |-> <<"good">>]
    /\ threads = [t \in LockThreads |-> LockThread("idle", "", "none")]
    /\ log = <<>>
    /\ chk = [lock |-> FreeLock, changes |-> <<>>, overlapped |-> FALSE]

LockIdle == <<execVars, acl, callbacks>>

\* a thread calls register("X", module), unregister("X") or discover()
Start(t, op, wants) ==
    /\ threads[t].pc = "idle"
    /\ threads' = [threads EXCEPT ![t] =
           LockThread(CASE op = "register" -> "lock_insert"
                        [] op = "unregister" -> "lock_pop"
                        [] op = "discover" -> "lock_store", op, wants)]
    /\ chk' = [chk EXCEPT !.overlapped =
                  @ \/ \E u \in LockThreads \ {t} : threads[u].pc \notin {"idle", "done"}]
    /\ UNCHANGED <<LockIdle, registry, modules, log>>

\* `with self._write_lock:` is entered (RLock: free, or held by the same thread)
Acquire(t) ==
    /\ threads[t].pc \in LockPcs
    /\ chk.lock.owner \in {0, t}
    /\ chk' = [chk EXCEPT !.lock = [owner |-> t, depth |-> chk.lock.depth + 1]]
    /\ threads' = [threads EXCEPT ![t].pc =
           CASE threads[t].pc = "lock_insert" -> "in_insert"
             [] threads[t].pc = "lock_store" -> "in_store"
             [] threads[t].pc = "lock_pop" -> "in_pop"
             [] threads[t].pc = "lock_rollback" -> "in_rollback"
             [] threads[t].pc = "lock_trigger" -> "in_trigger"]
    /\ UNCHANGED <<LockIdle, registry, modules, log>>

\* the with block is left
Release(lock, t) ==
    IF lock.depth = 1 THEN FreeLock ELSE [owner |-> t, depth |-> lock.depth - 1]

\* mutant: on_load is called inside the with block of the insert
RegisterInsertHolding(t) ==
    /\ threads[t].pc = "in_insert"
    /\ IF "X" \in DOMAIN modules
         THEN /\ threads' = [threads EXCEPT ![t].pc = "done", ![t].result = "duplicate"]
              /\ chk' = [chk EXCEPT !.lock = Release(chk.lock, t)]
              /\ UNCHANGED modules
         ELSE /\ modules' = Put(modules, "X", t)
              /\ threads' = [threads EXCEPT ![t].pc = "on_load"]
              /\ chk' = [chk EXCEPT !.changes = Append(@, Change("register", t))]
    /\ registry' = DOMAIN modules'
    /\ UNCHANGED <<LockIdle, log>>

\* register, under the lock: the duplicate check and the insert
RegisterInsert(t) ==
    /\ threads[t].pc = "in_insert"
    /\ IF "X" \in DOMAIN modules
         THEN /\ threads' = [threads EXCEPT ![t].pc = "done", ![t].result = "duplicate"]
              /\ chk' = [chk EXCEPT !.lock = Release(chk.lock, t)]
              /\ UNCHANGED modules
         ELSE /\ modules' = Put(modules, "X", t)
              /\ threads' = [threads EXCEPT ![t].pc = "on_load"]
              /\ chk' = [chk EXCEPT !.lock = Release(chk.lock, t),
                                    !.changes = Append(@, Change("register", t))]
    /\ registry' = DOMAIN modules'
    /\ UNCHANGED <<LockIdle, log>>

\* discover, under the lock: self._modules[mod_id] = module
DiscoverStore(t) ==
    /\ threads[t].pc = "in_store"
    /\ modules' = Put(modules, "X", t)
    /\ registry' = DOMAIN modules'
    /\ threads' = [threads EXCEPT ![t].pc = "on_load"]
    /\ chk' = [chk EXCEPT !.lock = Release(chk.lock, t),
                          !.changes = Append(@, Change("register", t))]
    /\ UNCHANGED <<LockIdle, log>>

\* unregister, under the lock: False if absent, else the module is popped
UnregisterPop(t) ==
    /\ threads[t].pc = "in_pop"
    /\ IF "X" \notin DOMAIN modules
         THEN /\ threads' = [threads EXCEPT ![t].pc = "done", ![t].result = "false"]
              /\ chk' = [chk EXCEPT !.lock = Release(chk.lock, t)]
              /\ UNCHANGED modules
         ELSE /\ modules' = Pop(modules, "X")
              /\ threads' = [threads EXCEPT ![t].pc = "on_unload"]
              /\ chk' = [chk EXCEPT !.lock = Release(chk.lock, t),
                                    !.changes = Append(@, Change("unregister", t))]
    /\ registry' = DOMAIN modules'
    /\ UNCHANGED <<LockIdle, log>>

\* on_load raised, under the lock: self._modules.pop(module_id, None)
Rollback(t) ==
    /\ threads[t].pc = "in_rollback"
    /\ modules' = Pop(modules, "X")
    /\ registry' = DOMAIN modules'
    /\ threads' = [threads EXCEPT ![t].pc = "done", ![t].result = "on_load_error"]
    /\ chk' = [chk EXCEPT !.lock = Release(chk.lock, t),
                          !.changes = Append(@, Change("rollback", t))]
    /\ UNCHANGED <<LockIdle, log>>

\* _trigger_event, under the lock: callbacks = list(self._callbacks[event])
Snapshot(t) ==
    /\ threads[t].pc = "in_trigger"
    /\ threads' = [threads EXCEPT ![t].pc = "callback"]
    /\ chk' = [chk EXCEPT !.lock = Release(chk.lock, t)]
    /\ UNCHANGED <<LockIdle, registry, modules, log>>

\* the hook calls registry.get("X") itself, or waits for a helper thread that
\* calls it: get takes the lock and gives it back
HookCallsBack(t) ==
    /\ threads[t].pc \in HookPcs
    /\ threads[t].wants # "none"
    /\ ~threads[t].called
    /\ chk.lock.owner \in (IF threads[t].wants = "self" THEN {0, t} ELSE {0})
    /\ threads' = [threads EXCEPT ![t].called = TRUE]
    /\ UNCHANGED <<LockIdle, registry, modules, log, chk>>

\* the hook returns or raises: on_load's exception leads to the rollback,
\* on_unload's and the subscriber's are logged and swallowed
HookEnds(t, raises) ==
    /\ threads[t].pc \in HookPcs
    /\ threads[t].wants = "none" \/ threads[t].called
    /\ LET th == threads[t]
       IN  /\ threads' = [threads EXCEPT ![t] =
                  [th EXCEPT !.called = FALSE,
                      !.pc = CASE th.pc = "on_load" ->
                                    IF raises THEN "lock_rollback" ELSE "lock_trigger"
                               [] th.pc = "on_unload" -> "lock_trigger"
                               [] th.pc = "callback" -> "done",
                      !.result = IF th.pc = "callback" THEN "ok" ELSE @]]
           /\ log' = IF th.pc = "callback"
                       THEN Append(log, Change(EventOf(th), t)) ELSE log
    /\ UNCHANGED <<LockIdle, registry, modules, chk>>

LockNext ==
    \/ \E t \in LockThreads, op \in LockOps, wants \in HookWants : Start(t, op, wants)
    \/ \E t \in LockThreads : Acquire(t)
    \/ \E t \in LockThreads : RegisterInsert(t)
    \/ \E t \in LockThreads : DiscoverStore(t)
    \/ \E t \in LockThreads : UnregisterPop(t)
    \/ \E t \in LockThreads : Rollback(t)
    \/ \E t \in LockThreads : Snapshot(t)
    \/ \E t \in LockThreads : HookCallsBack(t)
    \/ \E t \in LockThreads, raises \in BOOLEAN : HookEnds(t, raises)

SpecLock == LockInit /\ [][LockNext]_vars

\* ======================================================= properties
\* what a frame's trace says happened during its call
Events(f, hook) == SelectSeq(f.trace, LAMBDA e : e[1] = hook)
MwsOf(evs) == [i \in 1..Len(evs) |-> evs[i][2]]
BeforeMws(f) == MwsOf(Events(f, "before"))
AfterMws(f) == MwsOf(Events(f, "after"))
OnErrorEvents(f) == Events(f, "on_error")
ModuleInvoked(f) == Events(f, "execute") # <<>> \/ Events(f, "stream") # <<>>
DoneFrames == {frames[i] : i \in {j \in 1..Len(frames) : frames[j].pc = "done"}}

\* the steps of the call that raised (on_error handlers aside)
Failures(f) ==
    {f.trace[i] : i \in {j \in 1..Len(f.trace) :
        f.trace[j][1] # "on_error" /\ f.trace[j][3] \in {"raise", "timeout"}}}

\* the exception a failing step raised
Raises(e) ==
    CASE e[1] \in {"before", "after"} -> Error(e[1], e[2])
      [] e[1] = "timeout_check" -> Error("InvalidInputError", e[2])
      [] e[1] = "output_validation" -> Error("SchemaValidationError", "output")
      [] e[3] = "timeout" -> Error("ModuleTimeoutError", e[2])
      [] OTHER -> Error("ModuleError", e[2])

BeforeFailed(f) == \E e \in Failures(f) : e[1] = "before"
AfterFailed(f) == \E e \in Failures(f) : e[1] = "after"
Recovered(f) == \E i \in 1..Len(f.trace) :
                   f.trace[i][1] = "on_error" /\ f.trace[i][3] = "dict"

\* handlers E run over the list R in R's order, every one of them
EveryHandler(E, R) == MwsOf(E) = R

\* handlers E run over the list R in R's order up to the first that returns a
\* mapping (all of R if none does)
Cascade(E, R) ==
    /\ Len(E) <= Len(R)
    /\ \A i \in 1..Len(E) : E[i][2] = R[i]
    /\ \A i \in 1..(Len(E) - 1) : E[i][3] # "dict"
    /\ Len(E) < Len(R) => (Len(E) >= 1 /\ E[Len(E)][3] = "dict")

\* the before hooks entered are a prefix of the snapshot ending at the one that
\* raised, and neither an after hook nor the module ran
StoppedAtFailingBefore(f) ==
    LET B == Events(f, "before")
    IN  /\ MwsOf(B) = SubSeq(f.snapB, 1, Len(B))
        /\ B[Len(B)][3] = "raise"
        /\ AfterMws(f) = <<>>
        /\ ~ModuleInvoked(f)

\* C1 as stated: in the synchronous call, when a before hook raises, on_error
\* runs on every middleware entered so far, the failing one first, once each;
\* no later before hook, no after hook and no execute runs.
C1_AsStated ==
    \A f \in DoneFrames :
        (f.mode = "call" /\ BeforeFailed(f)) =>
            /\ StoppedAtFailingBefore(f)
            /\ EveryHandler(OnErrorEvents(f), Reverse(BeforeMws(f)))

\* C1 amended: as above, but the on_error handlers run only up to the first one
\* that returns a recovery mapping (B alone when B.on_error recovers).
C1_BeforeFailureCascade ==
    \A f \in DoneFrames :
        (f.mode = "call" /\ BeforeFailed(f)) =>
            /\ StoppedAtFailingBefore(f)
            /\ Cascade(OnErrorEvents(f), Reverse(BeforeMws(f)))

\* [A, B, C] with B.before raising: on_error ran on B and then on A
C1_Witness ==
    \E f \in DoneFrames :
        /\ f.mode = "call"
        /\ Len(f.snapB) = 3
        /\ BeforeMws(f) = SubSeq(f.snapB, 1, 2)
        /\ BeforeFailed(f)
        /\ MwsOf(OnErrorEvents(f)) = <<f.snapB[2], f.snapB[1]>>
        /\ f.outcome = "raise"

\* C2: in call_async and stream, when a before hook raises, the cascade runs
\* over the middlewares whose before was entered, the failing one included,
\* in reverse order, as in the synchronous call.
C2_AsyncBeforeFailureCascade ==
    \A f \in DoneFrames :
        (f.mode # "call" /\ BeforeFailed(f)) =>
            /\ StoppedAtFailingBefore(f)
            /\ Cascade(OnErrorEvents(f), Reverse(BeforeMws(f)))

\* C3: the first on_error handler that returns a mapping ends the cascade: it
\* is the last hook of the call, the call returns exactly its mapping, and
\* only later-registered middlewares had their on_error invoked before it.
C3_FirstRecoveryWins ==
    \A f \in DoneFrames :
        \A i \in 1..Len(f.trace) :
            (f.trace[i][1] = "on_error" /\ f.trace[i][3] = "dict") =>
                /\ i = Len(f.trace)
                /\ f.outcome = "return"
                /\ f.result = Value("on_error", f.trace[i][2])
                /\ \A j \in 1..(i - 1) :
                      f.trace[j][1] = "on_error" =>
                        \E p, q \in 1..Len(f.snapB) :
                            /\ f.snapB[p] = f.trace[i][2]
                            /\ f.snapB[q] = f.trace[j][2]
                            /\ p < q

\* two handlers would both recover; only the later-registered one was asked
C3_Witness ==
    \E f \in DoneFrames :
        /\ Recovered(f)
        /\ Len(OnErrorEvents(f)) = 1
        /\ Len(f.executed) >= 2
        /\ f.executed[Len(f.executed)] \in Plain
        /\ f.result = Value("on_error", f.executed[Len(f.executed)])

\* C4: when no handler recovers, the call raises the exception of the step
\* that failed; for a before hook, the hook's own exception, not the wrapper.
C4_OriginalReRaised ==
    \A f \in DoneFrames :
        (Failures(f) # {} /\ ~Recovered(f)) =>
            /\ f.outcome = "raise"
            /\ \A e \in Failures(f) : f.raised = Raises(e)

\* a synchronous call whose before hook raised and whose cascade ran in vain
C4_Witness ==
    \E f \in DoneFrames :
        /\ f.mode = "call"
        /\ BeforeFailed(f)
        /\ OnErrorEvents(f) # <<>>
        /\ ~Recovered(f)
        /\ f.raised.type = "before"

\* the call went through steps 6-10 without any step raising
CompletedNormally(f) ==
    f.pc = "done" /\ f.outcome = "return" /\ Failures(f) = {} /\ OnErrorEvents(f) = <<>>

\* C5: for a middleware list [M1..Mn] (the list at the before chain and at the
\* after chain) and a call that completes successfully: every before hook
\* once in the order M1..Mn, then the module, then every after hook once in
\* the order Mn..M1.
C5_OnionOrder ==
    \A f \in DoneFrames :
        (CompletedNormally(f) /\ f.snapA = f.snapB) =>
            LET n == Len(f.snapB)
            IN  /\ Len(f.trace) = 2 * n + 1
                /\ \A i \in 1..n :
                      /\ f.trace[i][1] = "before"
                      /\ f.trace[i][2] = f.snapB[i]
                      /\ f.trace[n + 1 + i][1] = "after"
                      /\ f.trace[n + 1 + i][2] = f.snapB[n + 1 - i]
                /\ f.trace[n + 1][1] \in {"execute", "stream"}
                /\ f.trace[n + 1][2] = f.module_id

\* a successful call under three middlewares
C5_Witness ==
    \E f \in DoneFrames :
        /\ CompletedNormally(f)
        /\ f.snapA = f.snapB
        /\ Len(f.snapB) = 3
        /\ AfterMws(f) = Reverse(f.snapB)

\* C6: when an after hook raises, it is the last after hook to run; the
\* cascade then runs over all middlewares whose before ran, in reverse order;
\* a handler's recovery mapping becomes the result, otherwise the after
\* hook's exception reaches the caller.
C6_AfterFailureCascade ==
    \A f \in DoneFrames :
        \A i \in 1..Len(f.trace) :
            (f.trace[i][1] = "after" /\ f.trace[i][3] = "raise") =>
                LET E == SubSeq(f.trace, i + 1, Len(f.trace))
                IN  /\ \A j \in 1..Len(E) : E[j][1] = "on_error"
                    /\ Cascade(E, Reverse(BeforeMws(f)))
                    /\ IF Recovered(f)
                         THEN /\ f.outcome = "return"
                              /\ f.result = Value("on_error", E[Len(E)][2])
                         ELSE /\ f.outcome = "raise"
                              /\ f.raised = Error("after", f.trace[i][2])

\* an after hook raised while an earlier-registered middleware's after hook
\* was still to come, and the cascade visited every middleware
C6_Witness ==
    \E f \in DoneFrames :
        /\ AfterFailed(f)
        /\ Len(AfterMws(f)) < Len(f.snapA)
        /\ Len(OnErrorEvents(f)) = 3
        /\ f.outcome = "raise"

EarlyErrors == {"CallDepthExceededError", "CircularCallError",
                "CallFrequencyExceededError", "ModuleNotFoundError",
                "ACLDeniedError"}

FailedEarly(f) ==
    /\ f.pc = "done"
    /\ \/ f.raised.type \in EarlyErrors
       \/ f.raised = Error("SchemaValidationError", "input")

\* C7: a call that fails in the safety checks, the lookup, the ACL check or
\* the input validation invokes no middleware hook and no execute.
C7_EarlyFailureNoHooks ==
    \A i \in 1..Len(frames) : FailedEarly(frames[i]) => frames[i].trace = <<>>

\* input validation failed with middlewares installed
C7_Witness ==
    \E f \in DoneFrames :
        /\ f.raised = Error("SchemaValidationError", "input")
        /\ middlewares # <<>>
        /\ f.trace = <<>>

\* C8: a finished call leaves the stack MetricsMiddleware keeps in ctx.data at
\* the length it had when the call began.
C8_StackBalanced ==
    \A f \in DoneFrames : Len(metrics_starts) = f.stack0

\* C9: the after hooks that ran for a call are the reverse of the middlewares
\* whose before hooks ran, whatever was added or removed meanwhile.
C9_PrivateSnapshot ==
    \A f \in DoneFrames :
        CompletedNormally(f) => AfterMws(f) = Reverse(BeforeMws(f))

\* the chain of the checked call
ChkChain == Child(chk.parent, chk.module_id)

\* the target closes a cycle: it occurs earlier and the caller is another module
ClosesCycle == chk.module_id \in Range(chk.parent)
               /\ chk.parent[Len(chk.parent)] # chk.module_id

\* C10 as stated: a chain in which the target occurs more than maxModuleRepeat
\* times makes the call raise frequency-exceeded.
C10_AsStated ==
    (chk.pc = "checked" /\ Count(ChkChain, chk.module_id) > chk.max_module_repeat)
        => chk.error.type = "CallFrequencyExceededError"

\* C10 amended: such a chain makes the call raise frequency-exceeded unless it
\* is longer than maxCallDepth (depth-exceeded) or closes a cycle
\* (circular-call), which are checked first; it never passes the checks.
C10_FrequencyExceeded ==
    (chk.pc = "checked" /\ Count(ChkChain, chk.module_id) > chk.max_module_repeat)
        => /\ chk.error.type =
                IF Len(ChkChain) > chk.max_call_depth THEN "CallDepthExceededError"
                ELSE IF ClosesCycle THEN "CircularCallError"
                ELSE "CallFrequencyExceededError"

\* [X, X, X] under a repeat budget of 2 raised frequency-exceeded
C10_Witness ==
    /\ chk.pc = "checked"
    /\ ChkChain = <<"X", "X", "X">>
    /\ chk.max_module_repeat = 2
    /\ chk.error.type = "CallFrequencyExceededError"

\* the target occurs earlier in the chain and a different id lies between its
\* most recent earlier occurrence and the tail
CycleInChain ==
    \E i \in 1..Len(chk.parent) :
        /\ chk.parent[i] = chk.module_id
        /\ \A k \in (i + 1)..Len(chk.parent) : chk.parent[k] # chk.module_id
        /\ \E k \in (i + 1)..Len(chk.parent) : chk.parent[k] # chk.module_id

\* C11 as stated: the call raises circular-call exactly when the target occurs
\* earlier in the chain with a different id in between.
C11_AsStated ==
    chk.pc = "checked" => (chk.error.type = "CircularCallError" <=> CycleInChain)

\* C11 amended: the call raises circular-call exactly when the chain is not
\* longer than maxCallDepth and the target occurs earlier with a different id
\* in between; a chain that only repeats one id never raises circular-call.
C11_CircularCall ==
    chk.pc = "checked" =>
        /\ chk.error.type = "CircularCallError"
              <=> (CycleInChain /\ Len(ChkChain) <= chk.max_call_depth)
        /\ Range(ChkChain) = {chk.module_id} => chk.error.type # "CircularCallError"

\* [X, Y, X] raised circular-call
C11_Witness ==
    /\ chk.pc = "checked"
    /\ ChkChain = <<"X", "Y", "X">>
    /\ chk.error.type = "CircularCallError"

\* C12: a call whose chain is longer than maxCallDepth raises depth-exceeded
\* and its module does not run, so a module runs only at depth <= maxCallDepth
\* and modules that always call on are stopped after finitely many calls.
C12_DepthBounded ==
    /\ [](chk.pc = "checked" /\ Len(ChkChain) > chk.max_call_depth
            => chk.error.type = "CallDepthExceededError")
    /\ [](chk.pc = "checked" /\ chk.error = NoError
            => Len(ChkChain) <= chk.max_call_depth)
    /\ <>(chk.pc = "checked" /\ chk.error # NoError)

\* a nested call was rejected with depth-exceeded
C12_Witness ==
    /\ chk.pc = "checked"
    /\ chk.nested > 0
    /\ Len(ChkChain) = chk.max_call_depth + 1
    /\ chk.error.type = "CallDepthExceededError"


\* the rule the claim says decides: the first in list order that matches
ChkMatches(i) ==
    MatchesRule(acl.rules[i], EffectiveCaller(chk.caller_id), chk.target_id, chk.context)

\* C16: check returns the effect of the first rule in list order whose caller
\* patterns, target patterns and conditions all match, whatever the later rules
\* are, and the default effect if no rule matches.
C16_FirstMatchWins ==
    chk.pc = "checked" =>
        IF \E i \in 1..Len(acl.rules) : ChkMatches(i)
          THEN \E i \in 1..Len(acl.rules) :
                  /\ ChkMatches(i)
                  /\ \A j \in 1..(i - 1) : ~ChkMatches(j)
                  /\ chk.result = (acl.rules[i].effect = "allow")
          ELSE chk.result = (acl.default_effect = "allow")

\* two rules of opposite effect matched and the first one decided
C16_Witness ==
    /\ chk.pc = "checked"
    /\ Len(acl.rules) = 2
    /\ ChkMatches(1) /\ ChkMatches(2)
    /\ acl.rules[1].effect = "deny" /\ acl.rules[2].effect = "allow"
    /\ acl.default_effect = "allow"
    /\ chk.result = FALSE

\* the checks that have taken their copy of the rules and the default effect
Snapshotted ==
    {t \in DOMAIN threads :
        threads[t].op = "check" /\ threads[t].pc \in {"check_eval", "done"}}

\* C15: the (rule list, default effect) pair a check evaluates is one the ACL
\* held as a whole, before or after a reload, add_rule or remove_rule, never a
\* mixture of two of them.
C15_ConsistentSnapshot ==
    \A t \in Snapshotted : <<threads[t].rules, threads[t].default_effect>> \in log

\* a check holds its copy while a reload with other rules and another default
\* effect waits for the lock
C15_Witness ==
    \E t, u \in DOMAIN threads :
        /\ threads[t].op = "check" /\ threads[t].pc = "check_default"
        /\ threads[u].pc = "reload_lock"
        /\ threads[u].reloaded.rules # acl.rules
        /\ threads[u].reloaded.default_effect # acl.default_effect

\* module m of the resolved batch declares d as a dependency
Declares(m, d) ==
    /\ m \in KnownIds(chk.batch)
    /\ d \in Range(DepsWithin(chk.batch, m, KnownIds(chk.batch)))

\* position of a module in the returned order (0: not there)
PlaceOf(m) ==
    LET hits == {i \in 1..Len(chk.resolved.load_order) : chk.resolved.load_order[i] = m}
    IN  IF hits = {} THEN 0 ELSE CHOOSE i \in hits : TRUE

\* C17: when resolution returns, the order holds every module of the batch
\* exactly once and every module comes after the dependencies it declares
\* within the batch.
C17_DependenciesFirst ==
    (chk.pc = "resolved" /\ chk.resolved.outcome = "returned") =>
        /\ Len(chk.resolved.load_order) = Len(chk.batch)
        /\ Range(chk.resolved.load_order) = KnownIds(chk.batch)
        /\ \A m, d \in KnownIds(chk.batch) :
               Declares(m, d) => PlaceOf(d) < PlaceOf(m)

\* A needs B and B needs C: the order returned is C, B, A
C17_Witness ==
    /\ chk.pc = "resolved"
    /\ Declares("A", "B") /\ Declares("B", "C")
    /\ chk.resolved = Resolved("returned", <<"C", "B", "A">>, <<>>)

\* the dependencies declared within the batch contain a cycle
HasCycle ==
    \E p \in UNION {[1..k -> KnownIds(chk.batch)] : k \in 2..(Len(chk.batch) + 1)} :
        /\ p[1] = p[Len(p)]
        /\ \A i \in 1..(Len(p) - 1) : Declares(p[i], p[i + 1])

\* a path that starts and ends with the same id, each id declaring the next
GenuineCycle(path) ==
    /\ Len(path) >= 2
    /\ path[1] = path[Len(path)]
    /\ \A i \in 1..(Len(path) - 1) : Declares(path[i], path[i + 1])

\* C18: when the dependencies within the batch contain a cycle and resolution
\* raises circular-dependency, the cycle path it reports starts and ends with
\* the same id and every id in it declares the next one as a dependency.
C18_GenuineCyclePath ==
    (chk.pc = "resolved" /\ HasCycle
        /\ chk.resolved.outcome = "CircularDependencyError")
        => GenuineCycle(chk.resolved.cycle_path)

\* the register calls made for id "X", and how they ended
Registrants == {t \in DOMAIN threads : threads[t].op = "register"}
Ended(result) == {t \in Registrants : threads[t].result = result}

\* every thread that did anything called register("X", its own module), and
\* every such call has returned or raised
Settled ==
    /\ Registrants # {}
    /\ \A t \in DOMAIN threads :
           /\ threads[t].pc \in {"idle", "done"}
           /\ threads[t].pc = "done" => threads[t].module_id = "X"

\* the registry holds the module thread t passed
Holds(t) == "X" \in DOMAIN modules /\ modules["X"] = threads[t].module

\* C13 as stated: of the concurrent register calls for one id exactly one
\* succeeds, every other one fails with the duplicate-id error, and the
\* registry holds the successful caller's module.
C13_AsStated ==
    Settled =>
        /\ Cardinality(Ended("ok")) = 1
        /\ Registrants = Ended("ok") \cup Ended("duplicate")
        /\ \A t \in Ended("ok") : Holds(t)

\* C13 amended: at most one of the calls succeeds and the registry then holds
\* its module; a call whose on_load raised fails with that error, every other
\* one with the duplicate-id error; if none succeeds the id stays unregistered,
\* and if no on_load raised exactly one succeeds.
C13_AtMostOneRegisters ==
    Settled =>
        /\ Cardinality(Ended("ok")) <= 1
        /\ Registrants = Ended("ok") \cup Ended("duplicate") \cup Ended("on_load_error")
        /\ \A t \in Ended("ok") : Holds(t)
        /\ Ended("ok") = {} => "X" \notin DOMAIN modules
        /\ Ended("on_load_error") = {} => Cardinality(Ended("ok")) = 1

\* three calls for "X": one succeeded, two were rejected as duplicates
C13_Witness ==
    /\ Settled
    /\ Cardinality(Ended("ok")) = 1
    /\ Cardinality(Ended("duplicate")) = 2
    /\ \E t \in Ended("ok") : Holds(t)

\* the register calls that ended with the exception of on_load
FailedOnLoad ==
    {t \in DOMAIN threads :
        /\ threads[t].pc = "done"
        /\ threads[t].op = "register"
        /\ threads[t].result = "on_load_error"}

\* C14: a register call whose module's on_load raised ends with that failure,
\* the id is not registered, the count is what it was before the call, and no
\* callback was given the module.
C14_FailedOnLoadLeavesNoTrace ==
    \A t \in FailedOnLoad :
        /\ threads[t].module_id \notin DOMAIN modules
        /\ Cardinality(DOMAIN modules) = threads[t].count0
        /\ \A e \in log : e.inst # threads[t].module.inst

\* on_load raised for a module registered next to another one, with subscribers
C14_Witness ==
    \E t \in FailedOnLoad :
        /\ threads[t].count0 = 1
        /\ callbacks.register # <<>>
        /\ log # {}

\* the discover calls that have returned
Discovered ==
    {t \in DOMAIN threads : threads[t].pc = "done" /\ threads[t].op = "discover"}

\* the instance discover made at position k of thread t's load order
Instance(t, k) == <<threads[t].n, k>>

\* C19: after discover, a module whose instantiation or on_load failed is not
\* in the registry and no callback was given it, every other module of the
\* batch is registered, and the count returned is the number of those.
C19_DiscoverSkipsFailures ==
    \A t \in Discovered :
        /\ \A k \in 1..Len(threads[t].load_order) :
              LET id == threads[t].load_order[k]
              IN  IF id \in threads[t].failed
                    THEN /\ id \in DOMAIN modules => modules[id].inst # Instance(t, k)
                         /\ \A e \in log : e.inst # Instance(t, k)
                    ELSE /\ id \in DOMAIN modules
                         /\ modules[id].inst = Instance(t, k)
        /\ threads[t].registered_count =
              Cardinality(Range(threads[t].load_order) \ threads[t].failed)

\* discover returned 1: X failed, Y is registered and the subscribers were told
C19_Witness ==
    \E t \in Discovered :
        /\ threads[t].failed = {"X"}
        /\ threads[t].registered_count = 1
        /\ "X" \notin DOMAIN modules
        /\ "Y" \in DOMAIN modules
        /\ \E e \in log : e.inst = Instance(t, 2) /\ e.raised

\* the register and unregister calls that got to _trigger_event and are over
Triggered ==
    {t \in DOMAIN threads :
        /\ threads[t].pc = "done"
        /\ threads[t].op \in {"register", "unregister"}
        /\ threads[t].i >= 1}

\* C20: a register or unregister call that triggers its event succeeds whatever
\* the callbacks raise: every subscribed callback was invoked, and the module is
\* registered (or gone). This holds for calls made after a callback has raised.
C20_CallbackErrorsSwallowed ==
    \A t \in Triggered :
        /\ threads[t].result = IF threads[t].op = "register" THEN "ok" ELSE "true"
        /\ \A j \in 1..Len(threads[t].cbs) :
               Delivered(threads[t].event, threads[t].module_id, threads[t].module,
                         threads[t].cbs[j]) \in log
        /\ IF threads[t].op = "register"
             THEN /\ threads[t].module_id \in DOMAIN modules
                  /\ modules[threads[t].module_id] = threads[t].module
             ELSE threads[t].module_id \notin DOMAIN modules

\* a registration succeeded although "bad" raised during it and during an
\* earlier operation, and "good", subscribed after "bad", was invoked
C20_Witness ==
    \E t \in Triggered :
        /\ threads[t].op = "register"
        /\ threads[t].result = "ok"
        /\ threads[t].cbs = <<"bad", "good">>
        /\ \E e \in log : e.raised /\ e.inst[1] < threads[t].n
        /\ \E e \in log : e.raised /\ e.inst = threads[t].module.inst
        /\ \E e \in log : ~e.raised /\ e.inst = threads[t].module.inst

\* position of x in the list s (0: not there)
PlaceIn(s, x) ==
    LET hits == {i \in 1..Len(s) : s[i] = x}
    IN  IF hits = {} THEN 0 ELSE CHOOSE i \in hits : \A j \in hits : i <= j

\* C21: when an on_error handler raises, the cascade goes on with the handler
\* of the middleware registered just before it, and the call still ends with a
\* handler's recovery mapping or with the exception of the step that failed.
C21_HandlerErrorsIgnored ==
    \A f \in DoneFrames :
        \A i \in 1..Len(f.trace) :
            (f.trace[i][1] = "on_error" /\ f.trace[i][3] = "raise") =>
                LET p == PlaceIn(f.snapB, f.trace[i][2])
                IN  /\ p > 1 =>
                          /\ i < Len(f.trace)
                          /\ f.trace[i + 1][1] = "on_error"
                          /\ f.trace[i + 1][2] = f.snapB[p - 1]
                    /\ IF Recovered(f)
                         THEN f.outcome = "return"
                         ELSE /\ f.outcome = "raise"
                              /\ \A e \in Failures(f) : f.raised = Raises(e)

\* the first handler asked raised, the next one was asked and the module's
\* own exception reached the caller
C21_Witness ==
    \E f \in DoneFrames :
        LET E == OnErrorEvents(f)
        IN  /\ Len(E) >= 2
            /\ E[1][3] = "raise"
            /\ E[1][2] \in Plain
            /\ f.outcome = "raise"
            /\ f.raised = Error("ModuleError", f.module_id)

\* the call chain context c holds
ChainOf(c) == chk.heap[chk.ctxs[c].call_chain]

\* C22: every context made by child() holds its parent's chain followed by the
\* target id, and no context's chain ever changes, so the children made from
\* one context all start with that context's chain.
C22_ChildChain ==
    /\ [](\A c \in 1..Len(chk.ctxs) :
             chk.ctxs[c].parent # 0 =>
                ChainOf(c) = Append(ChainOf(chk.ctxs[c].parent), chk.ctxs[c].target))
    /\ [][\A c \in 1..Len(chk.ctxs) :
             chk'.heap[chk'.ctxs[c].call_chain] = ChainOf(c)]_vars

\* two calls made from the same context, whose chain is not empty
C22_Witness ==
    \E c, d \in 1..Len(chk.ctxs) :
        /\ c # d
        /\ chk.ctxs[c].parent # 0
        /\ chk.ctxs[c].parent = chk.ctxs[d].parent
        /\ chk.ctxs[c].target # chk.ctxs[d].target
        /\ ChainOf(chk.ctxs[c].parent) # <<>>
        /\ Front(ChainOf(c)) = ChainOf(chk.ctxs[c].parent)
        /\ Front(ChainOf(d)) = ChainOf(chk.ctxs[c].parent)

\* what the schema asks for at one position: a null stays null, the value
\* under a node marked sensitive is the sentinel, and a mapping or a list is
\* kept with each entry treated by the schema of its key or of its items
RECURSIVE Hidden(_, _)
Hidden(value, nodes) ==
    IF value = Null THEN value
    ELSE IF nodes # <<>> /\ nodes[1].sensitive THEN REDACTED_VALUE
    ELSE IF value.kind = "dict"
      THEN Dict([k \in DOMAIN value.of |->
              Hidden(value.of[k],
                     IF /\ nodes # <<>>
                        /\ nodes[1].properties # <<>>
                        /\ k \in DOMAIN nodes[1].properties[1]
                       THEN <<nodes[1].properties[1][k]>> ELSE <<>>)])
    ELSE IF value.kind = "list"
      THEN List([i \in 1..Len(value.of) |->
              Hidden(value.of[i], IF nodes # <<>> THEN nodes[1].items ELSE <<>>)])
    ELSE value

\* the inputs with the top-level _secret_ keys and the sensitive leaves hidden
Expected(data, schema) ==
    LET h == Hidden(data, <<schema>>)
    IN  Dict([k \in DOMAIN data.of |->
                IF StartsWith(k, SecretPrefix) /\ data.of[k] # Null
                  THEN REDACTED_VALUE ELSE h.of[k]])

\* C23: after input validation the redacted inputs are the inputs with the
\* sentinel at every leaf the schema marks sensitive and at every top-level
\* key beginning with _secret_ (a null stays null), and nothing else changed.
C23_RedactedExactly ==
    chk.pc = "redacted" => chk.redacted = Expected(chk.data, chk.schema)

\* C24: redacting a redacted mapping again changes nothing.
C24_Idempotent ==
    chk.pc = "again" => chk.again = chk.redacted

\* a mapping with a sensitive list, a nested sensitive leaf and a secret key
\* was redacted, changed by it, and redacted again
C24_Witness ==
    /\ chk.pc = "again"
    /\ chk.redacted # chk.data
    /\ {<<"l">>, <<"a">>, <<"_secret_", "k">>} \subseteq DOMAIN chk.redacted.of
    /\ chk.redacted.of[<<"l">>] = List(<<REDACTED_VALUE, Null>>)
    /\ chk.redacted.of[<<"a">>] = Dict(Entries({<<(<<"p">>), REDACTED_VALUE>>}))
    /\ chk.redacted.of[<<"_secret_", "k">>] = REDACTED_VALUE
    /\ chk.again = chk.redacted

\* value is pattern with each "*" replaced by some string, possibly empty
RECURSIVE Instance_of(_, _)
Instance_of(value, pattern) ==
    IF pattern = <<>> THEN value = <<>>
    ELSE IF pattern[1] = Star
      THEN \E k \in 0..Len(value) :
              Instance_of(SubSeq(value, k + 1, Len(value)), Tail(pattern))
    ELSE /\ value # <<>>
         /\ value[1] = pattern[1]
         /\ Instance_of(Tail(value), Tail(pattern))

\* C25: match(pattern, value) is true exactly when value is the pattern with
\* each "*" replaced by some string; so "*" matches every value and a pattern
\* without "*" matches only itself.
C25_MatchIsSubstitution ==
    chk.pc = "matched" =>
        /\ chk.result = Instance_of(chk.module_id, chk.pattern)
        /\ chk.pattern = <<Star>> => chk.result
        /\ Star \notin Range(chk.pattern) => (chk.result <=> chk.module_id = chk.pattern)

\* "a*b" matched "abab": the fragment b was found first in the middle, and the
\* id ends with it
C25_Witness ==
    /\ chk.pc = "matched"
    /\ chk.pattern = <<"a", Star, "b">>
    /\ chk.module_id = <<"a", "b", "a", "b">>
    /\ chk.result

\* the calls that ran a synchronous execute on a worker thread
OnWorker == {i \in 1..Len(log) :
                log[i].worker # 0 /\ threads[log[i].worker].kind = "thread"}

\* C26: a synchronous call that ends while its worker is still running raises
\* module-timeout with the module id and the timeout; whatever a worker does
\* later, every call keeps the outcome it had, and a call returns or raises
\* only what its own worker returned or raised.
C26_TimeoutAbandonsWorker ==
    /\ [](\A i \in OnWorker :
            LET e == log[i]
                w == threads[e.worker]
            IN  /\ w.state = "running" =>
                      /\ e.outcome = "raise"
                      /\ e.error = ModuleTimeoutError(e.module_id, config.default_timeout)
                /\ e.error.type = "ModuleTimeoutError" => e.elapsed
                /\ e.outcome = "return" => (w.state = "returned" /\ e.value = e.n)
                /\ e.error.type = "ModuleError" => (w.state = "raised" /\ e.error = ExecuteRaised(e.n)))
    /\ [][\A i \in 1..Len(log) : log'[i] = log[i]]_vars

\* the first call timed out, its worker raised afterwards, and the second call
\* returned its own worker's output
C26_Witness ==
    /\ Len(log) = 2
    /\ OnWorker = {1, 2}
    /\ log[1].error = ModuleTimeoutError(log[1].module_id, DefaultTimeout)
    /\ threads[log[1].worker].state = "raised"
    /\ log[2].outcome = "return"
    /\ log[2].value = 2

\* the calls that bridged to an async execute
Bridged == {i \in 1..Len(log) :
               log[i].worker # 0 /\ threads[log[i].worker].kind = "coro"}

AtStep7 == {frames[i] : i \in {j \in 1..Len(frames) :
               Events(frames[j], "timeout_check") # <<>> \/ ModuleInvoked(frames[j])}}

\* C28 as stated: with a negative default timeout every call that reaches
\* step 7 raises invalid-input and execute is never invoked.
C28_AsStated ==
    config.default_timeout < 0 =>
        \A f \in AtStep7 :
            /\ f.pc = "done"
            /\ f.outcome = "raise"
            /\ f.raised = Error("InvalidInputError", f.module_id)
            /\ Events(f, "execute") = <<>>

\* C28 amended: with a negative default timeout execute is never invoked; a
\* call, an async call and a stream call on a module without stream() fail at
\* step 7 with invalid-input, which the caller gets unless an on_error handler
\* of an executed middleware recovers; a stream call on a module with stream()
\* iterates the stream and does not look at the timeout.
C28_NegativeTimeoutRejected ==
    config.default_timeout < 0 =>
        \A f \in AtStep7 :
            /\ Events(f, "execute") = <<>>
            /\ IF Events(f, "stream") # <<>>
                 THEN f.mode = "stream" /\ Events(f, "timeout_check") = <<>>
                 ELSE /\ f.pc = "done"
                      /\ Failures(f) = {Ev("timeout_check", f.module_id, "raise")}
                      /\ IF Recovered(f)
                           THEN f.outcome = "return"
                           ELSE /\ f.outcome = "raise"
                                /\ f.raised = Error("InvalidInputError", f.module_id)

\* a synchronous call whose middlewares did not recover got invalid-input
C28_Witness ==
    /\ config.default_timeout < 0
    /\ \E f \in AtStep7 :
          /\ f.mode = "call"
          /\ OnErrorEvents(f) # <<>>
          /\ f.outcome = "raise"
          /\ f.raised = Error("InvalidInputError", f.module_id)

\* the stream calls that iterate the module's stream()
Streams == {frames[i] : i \in {j \in 1..Len(frames) : frames[j].streaming}}

\* what the consumer was handed from the module's stream (a recovery mapping
\* comes last and is not one of them)
ChunksOf(f) == IF Recovered(f) THEN Front(f.yielded) ELSE f.yielded

\* the mapping that gives every key the value of the last chunk that has it
ShallowMerge(chunks) ==
    [k \in UNION {DOMAIN chunks[i] : i \in 1..Len(chunks)} |->
        LET last == CHOOSE i \in 1..Len(chunks) :
                       /\ k \in DOMAIN chunks[i]
                       /\ \A j \in (i + 1)..Len(chunks) : k \notin DOMAIN chunks[j]
        IN  chunks[last][k]]

\* C29: a stream call on a module with stream() hands on the module's chunks
\* as they are and in order; the accumulator is their shallow merge; when the
\* stream has ended, output validation and the after chain get the
\* accumulator, each after hook of the snapshot is run once, in reverse, and
\* nothing but the chunks is handed on.
C29_StreamYieldsChunks ==
    \A f \in Streams :
        /\ ChunksOf(f) = SubSeq(ModuleStream, 1, Len(ChunksOf(f)))
        /\ f.accumulated = ShallowMerge(ChunksOf(f))
        /\ f.pc = "output" => f.output = Value("accumulated", f.module_id)
        /\ f.pc \in {"exec", "running"} => AfterMws(f) = <<>>
        /\ Cardinality({i \in 1..Len(f.trace) : f.trace[i][1] = "output_validation"}) <= 1
        /\ NoDup(AfterMws(f))
        /\ (f.pc = "done" /\ Failures(f) = {}) =>
              /\ f.outcome = "return"
              /\ AfterMws(f) = Reverse(f.snapA)
              /\ f.yielded = ChunksOf(f)

\* both chunks were handed on, the second overriding a key of the first, and
\* the after chain has run over the merge
C29_Witness ==
    \E f \in Streams :
        /\ f.pc = "done"
        /\ Failures(f) = {}
        /\ f.yielded = ModuleStream
        /\ f.accumulated = [a |-> 2, b |-> 1, c |-> 1]
        /\ AfterMws(f) # <<>>

\* the steps inside the try block of stream()
TrySteps == {"before", "timeout_check", "execute", "stream", "output_validation", "after"}

\* the finished stream calls in which one of those steps raised
FailedStreams ==
    {f \in DoneFrames : f.mode = "stream" /\ \E e \in Failures(f) : e[1] \in TrySteps}

\* C30: when a step of stream() from the before chain on raises, the on_error
\* handlers of the executed middlewares are asked in reverse order up to the
\* first recovery mapping; that mapping is handed to the consumer as the last
\* chunk and the stream ends normally; without one the exception of the failed
\* step reaches the consumer.
C30_StreamErrorCascade ==
    \A f \in FailedStreams :
        LET E == OnErrorEvents(f)
        IN  /\ MwsOf(E) = SubSeq(Reverse(f.executed), 1, Len(E))
            /\ \A i \in 1..(Len(E) - 1) : E[i][3] # "dict"
            /\ IF Recovered(f)
                 THEN /\ E[Len(E)][3] = "dict"
                      /\ f.outcome = "return"
                      /\ f.result = Value("on_error", E[Len(E)][2])
                      /\ f.yielded # <<>>
                      /\ f.yielded[Len(f.yielded)] = f.result
                      /\ f.raised = NoError
                 ELSE /\ Len(E) = Len(f.executed)
                      /\ f.outcome = "raise"
                      /\ \A e \in Failures(f) : f.raised = Raises(e)
                      /\ \A i \in 1..Len(f.yielded) : f.yielded[i] \in Range(ModuleStream)

\* the module's stream raised after its first chunk and a handler's mapping
\* came as the second and last chunk
C30_Witness ==
    \E f \in FailedStreams :
        /\ Ev("stream", f.module_id, "raise") \in Failures(f)
        /\ Recovered(f)
        /\ Len(f.yielded) = 2
        /\ f.yielded[1] = ModuleStream[1]
        /\ f.yielded[2] = f.result
        /\ f.outcome = "return"

\* C31: for the same executed list and the same handler outcomes the
\* synchronous and the async on_error cascade ask the same handlers in the same
\* order and return the same recovery value (or none).
C31_CascadesAgree ==
    chk.pc = "both" =>
        /\ chk.sync[1].trace = chk.async[1].trace
        /\ chk.sync[1].recovery = chk.async[1].recovery

\* the modules not yet emitted before step k whose dependencies within the
\* batch have all been emitted
ReleasedBefore(k) ==
    LET emitted == {chk.resolved.load_order[i] : i \in 1..(k - 1)}
    IN  {m \in KnownIds(chk.batch) \ emitted :
            \A d \in KnownIds(chk.batch) : Declares(m, d) => d \in emitted}

\* the step at which m was released: the place of the last of its
\* dependencies (0: it has none within the batch)
ReleasedAt(m) ==
    LET places == {PlaceOf(d) : d \in {x \in KnownIds(chk.batch) : Declares(m, x)}}
    IN  IF places = {} THEN 0 ELSE CHOOSE p \in places : \A q \in places : q <= p

\* C32 as stated: the module emitted at each step is the alphabetically
\* smallest of the modules released by then.
C32_AsStated ==
    (chk.pc = "resolved" /\ chk.resolved.outcome = "returned") =>
        \A k \in 1..Len(chk.resolved.load_order) :
            \A m \in ReleasedBefore(k) :
                Rank(chk.resolved.load_order[k]) <= Rank(m)

\* C32 amended: modules are emitted in the order in which they were released,
\* and alphabetically among those released at the same step (the modules
\* without dependencies in the batch count as released together at the start).
C32_ReleasedOrder ==
    (chk.pc = "resolved" /\ chk.resolved.outcome = "returned") =>
        \A i, j \in 1..Len(chk.resolved.load_order) :
            i < j =>
                LET a == chk.resolved.load_order[i]
                    b == chk.resolved.load_order[j]
                IN  \/ ReleasedAt(a) < ReleasedAt(b)
                    \/ ReleasedAt(a) = ReleasedAt(b) /\ Rank(a) < Rank(b)

\* A needs B: B and C start out released and are emitted first, A follows C
\* although it was released before C was emitted
C32_Witness ==
    /\ chk.pc = "resolved"
    /\ Declares("A", "B")
    /\ chk.resolved = Resolved("returned", <<"B", "C", "A">>, <<>>)

\* C37: resolution raises circular-dependency only when the dependencies
\* declared within the batch contain a cycle.
C37_CycleErrorsAreCycles ==
    (chk.pc = "resolved" /\ chk.resolved.outcome = "CircularDependencyError") => HasCycle

C38_DurationFromOwnBefore ==
    \A i \in 1..Len(chk.logged) :
        chk.logged[i].duration_ms = chk.logged[i].ended - chk.logged[i].began

\* C40: what _is_async_module answers for a module id is whether the execute
\* of the module registered under that id at that moment is async.
C40_CacheAgreesWithRegistry == chk.answer.is_async = chk.answer.actual

\* the module under id was put there by a register call that has returned
ReturnedOk(id) ==
    /\ id \in DOMAIN modules
    /\ modules[id].inst[2] = 0
    /\ \E t \in RegThreads :
          /\ threads[t].pc # "off"
          /\ \/ threads[t].n > modules[id].inst[1]
             \/ /\ threads[t].n = modules[id].inst[1]
                /\ threads[t].pc = "done"
                /\ threads[t].result = "ok"

\* C34: a module whose register call has returned stays under its id, the very
\* same instance, through every step that is not an unregister of that id.
C34_RegisteredStays ==
    [][\A id \in RegIds :
          (/\ ReturnedOk(id)
           /\ ~\E t \in RegThreads : /\ threads[t].pc = "idle"
                                     /\ threads'[t].op = "unregister"
                                     /\ threads'[t].module_id = id)
          => (id \in DOMAIN modules' /\ modules'[id] = modules[id])]_vars

\* get(id) returns the module thread t is registering
Observable(t) ==
    /\ threads[t].module_id \in DOMAIN modules
    /\ modules[threads[t].module_id] = threads[t].module

\* C35 as stated: no module is observable before its on_load has completed
\* successfully.
C35_AsStated ==
    \A t \in Registrants :
        threads[t].pc \in {"on_load", "rollback"} => ~Observable(t)

\* C35 amended: register inserts the module before it runs on_load, so the
\* module is observable while on_load runs and until a failing on_load has been
\* rolled back; once register has raised, for a failing on_load as for a
\* duplicate or empty id, the module is not observable.
C35_ObservableDuringOnLoad ==
    \A t \in Registrants :
        /\ threads[t].pc \in {"on_load", "rollback"} => Observable(t)
        /\ (threads[t].pc = "done" /\ threads[t].result # "ok") => ~Observable(t)
        /\ (threads[t].pc = "done" /\ threads[t].result = "ok") => Observable(t)

\* a register call was turned away as a duplicate of a module whose on_load
\* then failed: the only other call for that id ended with the on_load error
C35_Witness ==
    \E a, b \in Registrants :
        /\ threads[a].module_id = threads[b].module_id
        /\ threads[a].pc = "done" /\ threads[a].result = "on_load_error"
        /\ threads[b].pc = "done" /\ threads[b].result = "duplicate"
        /\ \A c \in Registrants \ {a, b} : threads[c].module_id # threads[a].module_id

\* C33: no thread holds the registry lock while its on_load, on_unload or
\* subscriber runs, and whatever the hooks call back, some thread can always
\* take a step until every call has ended.
C33_HooksOutsideLock ==
    /\ \A t \in LockThreads : threads[t].pc \in HookPcs => chk.lock.owner # t
    /\ (\E t \in LockThreads : threads[t].pc # "done") => ENABLED LockNext

\* a discovered module's on_load has called back into the registry, through a
\* helper thread, while another thread was inside unregister
C33_Witness ==
    \E t, u \in LockThreads :
        /\ threads[t].op = "discover"
        /\ threads[t].pc = "on_load"
        /\ threads[t].wants = "helper"
        /\ threads[t].called
        /\ threads[u].op = "unregister"
        /\ threads[u].pc = "on_unload"

\* no call is under way, and none was a discover
Quiescent == \A t \in LockThreads : threads[t].pc \in {"idle", "done"}
NoDiscover == \A t \in LockThreads : threads[t].op # "discover"

\* the changes of _modules that lasted: inserts that were not rolled back, pops
Kept ==
    SelectSeq(chk.changes, LAMBDA c :
        /\ c.event # "rollback"
        /\ Change("rollback", c.by) \notin Range(chk.changes))

\* the last event delivered says whether "X" is registered
LastEventAgrees ==
    log # <<>> => (log[Len(log)].event = "register" <=> "X" \in DOMAIN modules)

\* C36 as stated: register and unregister events are delivered in the order in
\* which the changes took effect, and the last one agrees with the registry.
C36_AsStated ==
    (Quiescent /\ NoDiscover) => (log = Kept /\ LastEventAgrees)

\* C36 amended: every event delivered belongs to a change that took effect
\* before, each change that lasted has its event delivered once when the calls
\* have ended, and when no two calls overlapped the events come in the order
\* of the changes and the last one agrees with the registry; the events of
\* overlapping calls come in either order.
C36_EventsFollowChanges ==
    NoDiscover =>
        /\ Range(log) \subseteq Range(chk.changes)
        /\ NoDup(log)
        /\ Quiescent => Range(log) = Range(Kept)
        /\ (Quiescent /\ ~chk.overlapped) => (log = Kept /\ LastEventAgrees)

\* register and unregister overlapped: the module was inserted, then popped,
\* and the subscriber was told `unregister` first and `register` last
C36_Witness ==
    /\ Quiescent
    /\ "X" \notin DOMAIN modules
    /\ \E a, b \in LockThreads :
          /\ chk.changes = <<Change("register", a), Change("unregister", b)>>
          /\ log = <<Change("unregister", b), Change("register", a)>>

====
